---- MODULE Spec2Model ----
(***************************************************************************)
(* Forkspoon: a metadata-caching FUSE gateway over a slow backend mount.   *)
(*                                                                         *)
(* The model follows the in-memory-cache dispatcher (the Go program in     *)
(* src/CACHE_STATUS.md, lines 295-1410): three TTL stores (AttrCache,      *)
(* LookupCache, DirCache), the handlers that drive them (Getattr, Lookup,  *)
(* Readdir), the passthrough handlers (Create, Mkdir, Unlink, Rmdir,       *)
(* Rename, Open, Read, Write, Release), the removal goroutines that Get    *)
(* spawns, a discrete clock, the backend file system the handlers call     *)
(* into and the kernel's own attribute/entry cache that honours the        *)
(* timeouts the handlers attach.                                           *)
(***************************************************************************)
EXTENDS Integers, Sequences, FiniteSets, TLC

\* ---------------------------------------------------------------- bounds
NumThreads == 2      \* concurrent metadata handler invocations
MaxTime    == 3      \* the clock runs 0..MaxTime
MaxTTL     == 2      \* the -cache-ttl flag is drawn from 0..MaxTTL
MaxPending == 1      \* outstanding removal goroutines per store and key
MaxIno     == 4      \* backend inode numbers 1..MaxIno
MaxSize    == 1      \* file sizes 0..MaxSize
MaxOpen    == 1      \* file descriptors the process may hold open
MaxCalls   == 3      \* updateMetrics calls whose counters are followed
MaxLogSize == 2      \* lines the active log holds before it is rotated
MaxEvents  == 2      \* logTransaction calls whose log files are followed
MaxGen     == 1      \* times the backend gives one inode number out again
MaxReap    == 2      \* outstanding removal goroutines per key under "reaper"
MaxRotations == 2    \* rotations of the log after which no call arrives
MaxStreams == 2      \* CachedDirStreams followed

Threads == 1..NumThreads
Inos    == 1..MaxIno
Times   == 0..MaxTime

\* ------------------------------------------------------- backend name space
\* The backend tree: the mount root, one directory under it, two files in it.
RootPath == "/"
DirPath  == "/d"
Names    == {"a", "b"}
FilePaths == {"/d/a", "/d/b"}
Paths    == {RootPath, DirPath} \cup FilePaths

\* filepath.Join(dir, name) on the paths of the tree.
Join(dir, name) ==
    IF dir = RootPath THEN "/" \o name ELSE dir \o "/" \o name

VARIABLES
    now,          \* time.Now()
    cacheTTL,     \* the global cacheTTL, set once from the -cache-ttl flag
    names,        \* backend: path -> inode number bound to it, 0 when absent
    size,         \* backend: inode number -> size of the file
    fds,          \* open loopbackFile handles: set of [fd, ino, path]
    workload,     \* the kind of metadata request the transport layer issues
    attrCache,    \* AttrCache.entries   : path -> [attr, expiry]
    lookupCache,  \* LookupCache.entries : key  -> [inode, entry, expiry]
    dirCache,     \* DirCache.entries    : path -> [entries, expiry]
    attrRm,       \* pending `go ac.Remove(path)` goroutines, per path
    lookupRm,     \* pending `go lc.Remove(key)` goroutines, per key
    dirRm,        \* pending `go dc.Remove(path)` goroutines, per path
    dirMu,        \* DirCache.mu: [w: the writer holding it or 0, r: the readers]
    metrics,      \* the global CacheMetrics counters
    calls,        \* history: per metadata operation, the invocations whose
                  \* store Get returned a value and those whose Get did not
    cacheLog,     \* the RotatingLogger: [open, size] of its active file, mu
                  \* the holder of its mutex (0 for none), closed whether
                  \* Close was called, and the history fields rotating, the
                  \* number of rotate calls in progress, and rotated, the
                  \* number of renames done
    transLog,     \* the transaction log file: [lines, set]; set is whether
                  \* main() opened one (-trans-log)
    logFiles,     \* next to the active log: rotated files, .gz files, and the
                  \* compressFile / cleanupOldFiles goroutines not yet run
    event,        \* history: the latest logTransaction call, its number, and
                  \* whether its two writes succeeded
    gens,         \* history: inode number -> how often the backend gave it out
    refs,         \* the nodes the transport layer references
    retired,      \* history: the nodes the transport layer has released and
                  \* no NewInode has built again
    th,           \* per handler invocation: position and locals
    resp,         \* the response handed to the transport layer at this instant
    kattr,        \* kernel attribute cache: path -> [attr, until]
    kentry,       \* kernel entry cache: path -> [entry, until]
    lastPut,      \* history: per store and key, the last completed Put, and
                  \* whether no removal goroutine was pending for the key then
    streams,      \* the CachedDirStreams Readdir has returned, in order:
                  \* entries, index, and as history the entries yielded
                  \* and the result of the latest call
    shown,        \* history: per operation and path, the latest backend read
                  \* whose attributes a client has been given, -1 for none
    owed          \* history: per operation and key, the record the last
                  \* completed successful miss stored, until the next such op

stores == <<attrCache, lookupCache, dirCache>>
removals == <<attrRm, lookupRm, dirRm>>
backend == <<names, size, fds>>
kernel == <<kattr, kentry>>
config == <<cacheTTL, workload>>
locks == <<dirMu>>
telemetry == <<metrics, calls>>
logging == <<cacheLog, transLog, logFiles, event>>
nodes == <<gens, refs, retired>>
hist == <<lastPut, owed>>
vars == <<now, cacheTTL, workload, names, size, fds, attrCache, lookupCache, dirCache,
          attrRm, lookupRm, dirRm, dirMu, metrics, calls, cacheLog, transLog, logFiles, event, gens, refs, retired, th, resp,
          kattr, kentry,
          lastPut, streams, shown, owed>>

\* ------------------------------------------------------------ Go map builtins
\* m[k] = e
MapPut(m, k, e) == [x \in DOMAIN m \cup {k} |-> IF x = k THEN e ELSE m[x]]

\* delete(m, k)
MapDel(m, k) == [x \in DOMAIN m \ {k} |-> m[x]]

\* --------------------------------------------------------------- records
\* syscall.Stat_t as far as the handlers use it; readAt and gen are history
\* fields: the instant of the backend read the record comes from, and which
\* of the files that bore the inode number it describes.
NilStat == [ino |-> 0, mode |-> "none", size |-> 0, readAt |-> 0, gen |-> 0]

\* fuse.AttrOut: the attributes and the kernel timeout (AttrValid).
NilAttr == [ino |-> 0, mode |-> "none", size |-> 0, timeout |-> 0, readAt |-> 0]

\* fuse.EntryOut: the attributes, the entry timeout and the attribute timeout.
NilEntry == [ino |-> 0, mode |-> "none", size |-> 0, entryTimeout |-> 0,
             attrTimeout |-> 0, readAt |-> 0]

\* *fs.Inode as NewInode builds it from fs.StableAttr{Mode, Ino}; gen is a
\* history field, the backend file the node was built for.
NilInode == [ino |-> 0, mode |-> "none", gen |-> 0]

\* []fuse.DirEntry: the entries {Name, Mode, Ino} in order; readAt is a history
\* field, the instant of the directory read the listing started from.
NilListing == [items |-> <<>>, readAt |-> 0]

\* out.FromStat(&st) on an AttrOut: copies the attributes, leaves the timeout.
AttrFromStat(out, st) ==
    [out EXCEPT !.ino = st.ino, !.mode = st.mode, !.size = st.size,
                !.readAt = st.readAt]

\* out.FromStat(&st) on an EntryOut.
EntryFromStat(out, st) ==
    [out EXCEPT !.ino = st.ino, !.mode = st.mode, !.size = st.size,
                !.readAt = st.readAt]

\* out.SetTimeout(cacheTTL)
SetTimeout(out, d) == [out EXCEPT !.timeout = d]

\* out.SetEntryTimeout(cacheTTL)
SetEntryTimeout(out, d) == [out EXCEPT !.entryTimeout = d]

\* out.SetAttrTimeout(cacheTTL)
SetAttrTimeout(out, d) == [out EXCEPT !.attrTimeout = d]

\* The mount options main() hands to fs.Mount: all three point at cacheTTL.
MountOptions ==
    [AttrTimeout |-> cacheTTL, EntryTimeout |-> cacheTTL,
     NegativeTimeout |-> cacheTTL]

\* ---------------------------------------------------------------- backend
ModeOf(p) == IF p \in FilePaths THEN "file" ELSE "dir"

\* The directory a path lives in.
ParentOf(p) == IF p \in FilePaths THEN DirPath ELSE RootPath

\* A path resolves when it and every directory above it are bound.
Exists(p) ==
    /\ names[p] # 0
    /\ p \in FilePaths => names[DirPath] # 0

\* syscall.Lstat(p, &st) on the backend as it is now.
Lstat(p) ==
    IF Exists(p)
    THEN [err |-> "OK",
          st  |-> [ino |-> names[p], mode |-> ModeOf(p),
                   size |-> size[names[p]], readAt |-> now,
                   gen |-> gens[names[p]]]]
    ELSE [err |-> "ENOENT", st |-> NilStat]

\* What a backend stat can return to the handler: the backend's answer, or an
\* I/O failure of the (network) mount.
LstatOutcomes(p) == {Lstat(p), [err |-> "EIO", st |-> NilStat]}

\* Under the "reaper" workload up to MaxReap removal goroutines of one key
\* are followed, elsewhere MaxPending.
Reaping == workload = "reaper"
PendingCap == IF Reaping THEN MaxReap ELSE MaxPending

\* History: the attributes of a read at instant r are given to a client by
\* operation f for path p; followed under the "metrics" workload.
Shown(f, p, r) ==
    IF workload = "metrics" /\ r > shown[f][p]
    THEN [shown EXCEPT ![f][p] = r] ELSE shown

\* The streams are followed under the "streams" workload.
Streaming == workload = "streams"

\* &CachedDirStream{entries: entries}: index is 0.
NewStream(entries) ==
    [entries |-> entries, index |-> 0, out |-> <<>>, last |-> "NONE"]

\* The streams after Readdir has returned one over the listing list.
Opened(list) ==
    IF Streaming THEN Append(streams, NewStream(list.items)) ELSE streams

\* The nodes are followed under the "nodes" workload.
Tracking == workload = "nodes"

\* History: the backend gives inode number i to a new file.
Allocate(i) == IF Tracking THEN [gens EXCEPT ![i] = @ + 1] ELSE gens

\* The transport layer takes a reference to the node a handler returned.
HandOut(n) == IF Tracking THEN refs \cup {n} ELSE refs

\* History: a node NewInode has just built is no released node any more.
Built(n) == IF Tracking THEN retired \ {n} ELSE retired

\* Inode numbers neither bound to a name nor held by an open file.
FreeInos == {i \in Inos : (\A p \in Paths : names[p] # i)
                          /\ (\A f \in fds : f.ino # i)}

\* The inode number the backend gives the next new file or directory: the
\* lowest one that is free.
NewIno == CHOOSE i \in FreeInos : \A j \in FreeInos : i <= j

\* ----------------------------------------------------------------- stores
\* AttrCache.Get: [hit, val] as returned, spawn when `go ac.Remove(path)` ran.
AttrCache_Get(path) ==
    IF path \notin DOMAIN attrCache
    THEN [hit |-> FALSE, val |-> NilAttr, spawn |-> FALSE]
    ELSE IF now > attrCache[path].expiry
         THEN [hit |-> FALSE, val |-> NilAttr, spawn |-> TRUE]
         ELSE [hit |-> TRUE, val |-> attrCache[path].attr, spawn |-> FALSE]

\* An AttrCache.Put that leaves an entry the map already holds for the path.
AttrCache_Put_KeepsOld(path, attr, ttl) ==
    IF path \in DOMAIN attrCache THEN attrCache
    ELSE MapPut(attrCache, path, [attr |-> attr, expiry |-> now + ttl])

\* AttrCache.Put: the map after the call.
AttrCache_Put(path, attr, ttl) ==
    MapPut(attrCache, path, [attr |-> attr, expiry |-> now + ttl])

\* AttrCache.Remove: the map after the call.
AttrCache_Remove(path) == MapDel(attrCache, path)

\* LookupCache.Get
LookupCache_Get(key) ==
    IF key \notin DOMAIN lookupCache
    THEN [hit |-> FALSE, inode |-> NilInode, entry |-> NilEntry, spawn |-> FALSE]
    ELSE IF now > lookupCache[key].expiry
         THEN [hit |-> FALSE, inode |-> NilInode, entry |-> NilEntry,
               spawn |-> TRUE]
         ELSE [hit |-> TRUE, inode |-> lookupCache[key].inode,
               entry |-> lookupCache[key].entry, spawn |-> FALSE]

\* A LookupCache.Put that stamps the entry with the present instant, not with
\* the instant ttl from now.
LookupCache_Put_NoTTL(key, inode, entry, ttl) ==
    MapPut(lookupCache, key,
           [inode |-> inode, entry |-> entry, expiry |-> now])

\* LookupCache.Put
LookupCache_Put(key, inode, entry, ttl) ==
    MapPut(lookupCache, key,
           [inode |-> inode, entry |-> entry, expiry |-> now + ttl])

\* LookupCache.Remove
LookupCache_Remove(key) == MapDel(lookupCache, key)

\* DirCache.Get
DirCache_Get(path) ==
    IF path \notin DOMAIN dirCache
    THEN [hit |-> FALSE, entries |-> NilListing, spawn |-> FALSE]
    ELSE IF now > dirCache[path].expiry
         THEN [hit |-> FALSE, entries |-> NilListing, spawn |-> TRUE]
         ELSE [hit |-> TRUE, entries |-> dirCache[path].entries,
               spawn |-> FALSE]

\* DirCache.Put
DirCache_Put(path, entries, ttl) ==
    MapPut(dirCache, path, [entries |-> entries, expiry |-> now + ttl])

\* DirCache.Remove
DirCache_Remove(path) == MapDel(dirCache, path)

\* ---------------------------------------------------------------- metrics
\* The counters of a process that has handled nothing yet.
NoMetrics ==
    [GetattrHits |-> 0, GetattrMisses |-> 0, LookupHits |-> 0,
     LookupMisses |-> 0, ReaddirHits |-> 0, ReaddirMisses |-> 0,
     OpenOps |-> 0, CreateOps |-> 0, WriteOps |-> 0, ReadOps |-> 0,
     UnlinkOps |-> 0, RenameOps |-> 0, MkdirOps |-> 0, RmdirOps |-> 0]

\* An updateMetrics that books every metadata event as a hit.
updateMetrics_AllHits(op, hit) ==
    CASE op = "GETATTR" -> [metrics EXCEPT !.GetattrHits = @ + 1]
      [] op = "LOOKUP"  -> [metrics EXCEPT !.LookupHits = @ + 1]
      [] op = "READDIR" -> [metrics EXCEPT !.ReaddirHits = @ + 1]
      [] OTHER          -> [metrics EXCEPT !.OpenOps = @ + 1]

\* updateMetrics: the counters after the call.
updateMetrics(op, hit) ==
    CASE op = "GETATTR" -> IF hit THEN [metrics EXCEPT !.GetattrHits = @ + 1]
                           ELSE [metrics EXCEPT !.GetattrMisses = @ + 1]
      [] op = "LOOKUP"  -> IF hit THEN [metrics EXCEPT !.LookupHits = @ + 1]
                           ELSE [metrics EXCEPT !.LookupMisses = @ + 1]
      [] op = "READDIR" -> IF hit THEN [metrics EXCEPT !.ReaddirHits = @ + 1]
                           ELSE [metrics EXCEPT !.ReaddirMisses = @ + 1]
      [] op = "OPEN"    -> [metrics EXCEPT !.OpenOps = @ + 1]
      [] op = "CREATE"  -> [metrics EXCEPT !.CreateOps = @ + 1]
      [] op = "WRITE"   -> [metrics EXCEPT !.WriteOps = @ + 1]
      [] op = "READ"    -> [metrics EXCEPT !.ReadOps = @ + 1]
      [] op = "UNLINK"  -> [metrics EXCEPT !.UnlinkOps = @ + 1]
      [] op = "RENAME"  -> [metrics EXCEPT !.RenameOps = @ + 1]
      [] op = "MKDIR"   -> [metrics EXCEPT !.MkdirOps = @ + 1]
      [] op = "RMDIR"   -> [metrics EXCEPT !.RmdirOps = @ + 1]
      [] OTHER          -> metrics

\* The counters are followed under the "metrics" workload.
Counting == workload = "metrics"

\* The handlers' call updateMetrics(op, hit).
Metered(op, hit) == IF Counting THEN updateMetrics(op, hit) ELSE metrics

\* History: one more invocation of op whose store Get returned a value (got)
\* or did not.
Called(op, got) ==
    IF ~Counting THEN calls
    ELSE IF got THEN [calls EXCEPT ![op].hits = @ + 1]
    ELSE [calls EXCEPT ![op].misses = @ + 1]

\* The number of updateMetrics calls so far.
Counted ==
    metrics.GetattrHits + metrics.GetattrMisses + metrics.LookupHits
      + metrics.LookupMisses + metrics.ReaddirHits + metrics.ReaddirMisses
      + metrics.OpenOps + metrics.CreateOps + metrics.WriteOps
      + metrics.ReadOps + metrics.UnlinkOps + metrics.RenameOps
      + metrics.MkdirOps + metrics.RmdirOps

\* ------------------------------------------------------------------ logs
\* MAX_OLD_FILES
MAX_OLD_FILES == 6

\* No logTransaction call yet.
NoEvent == [n |-> 0, op |-> "NONE", status |-> "NONE", path |-> RootPath,
            cached |-> FALSE, cacheOk |-> TRUE, transOk |-> TRUE]

\* The logs are followed under the "logs" workload.
Logging == workload = "logs"

\* A status column that looks at the flag before the operation.
cacheStatus_FlagFirst(op, cached) ==
    IF cached THEN "CACHE_HIT"
    ELSE IF op \in {"GETATTR", "LOOKUP", "READDIR"} THEN "CACHE_MISS"
    ELSE "PASSTHROUGH"

\* logTransaction: the status column of the line.
cacheStatus(op, cached) ==
    IF op \in {"GETATTR", "LOOKUP", "READDIR"}
    THEN IF cached THEN "CACHE_HIT" ELSE "CACHE_MISS"
    ELSE "PASSTHROUGH"

\* RotatingLogger.rotate, called with the line count sz of the file it closes:
\* the rename or the reopening can fail, and then the logger keeps the closed
\* file; a rotation that got past the rename has started both goroutines.
rotate(sz) ==
    \E r \in {"ok", "rename", "open"} :
      /\ cacheLog' = IF r = "ok"
                     THEN [cacheLog EXCEPT !.open = TRUE, !.size = 0,
                                           !.rotated = @ + 1]
                     ELSE [cacheLog EXCEPT !.open = FALSE, !.size = sz,
                             !.rotated = IF r = "open" THEN @ + 1 ELSE @]
      /\ logFiles' = IF r = "rename" THEN logFiles
                     ELSE [logFiles EXCEPT !.raw = @ + 1, !.compress = @ + 1,
                                           !.cleanup = @ + 1]

\* RotatingLogger.Write of one line; ok is whether l.file.WriteString worked.
RotatingLogger_Write(line, ok) ==
    IF ~ok
    THEN UNCHANGED <<cacheLog, logFiles>>
    ELSE IF cacheLog.size + 1 >= MaxLogSize
         THEN rotate(cacheLog.size + 1)
         ELSE /\ cacheLog' = [cacheLog EXCEPT !.size = @ + 1]
              /\ logFiles' = logFiles

\* fmt.Fprintf(transLog, ...) of one line; ok is whether the write worked.
TransLog_Write(line, ok) ==
    transLog' = IF ok THEN [transLog EXCEPT !.lines = @ + 1]
                ELSE transLog

\* logTransaction(op, path, cached): the line goes to the rotating cache log
\* when op is a metadata operation, and to the transaction log; the results
\* of the writes are dropped.
logTransaction(op, path, cached) ==
    IF ~Logging THEN UNCHANGED logging
    ELSE LET line == [op |-> op, status |-> cacheStatus(op, cached),
                      path |-> path]
             toCache == op \in {"GETATTR", "LOOKUP", "READDIR"}
         IN  \E okC \in IF toCache /\ cacheLog.open THEN BOOLEAN ELSE {FALSE},
                okT \in BOOLEAN :
               /\ RotatingLogger_Write(line, okC)
               /\ TransLog_Write(line, okT)
               /\ event' = [n |-> event.n + 1, op |-> op,
                            status |-> cacheStatus(op, cached),
                            path |-> path, cached |-> cached,
                            cacheOk |-> okC \/ ~toCache,
                            transOk |-> okT]

\* -------------------------------------------------------- handler state
NoDue == [set |-> FALSE]

NoRec == [set |-> FALSE]

\* A handler invocation that has not started (or has returned).
Idle == [pc |-> "idle", op |-> "NONE", key |-> RootPath, err |-> "OK",
         st |-> NilStat, list |-> <<>>, idx |-> 0, acc |-> NilListing,
         snap |-> <<>>, seen |-> {}, due |-> NoDue]

\* No response at this instant.
NoResp == [op |-> "NONE", key |-> RootPath, hit |-> FALSE, errno |-> "OK",
           attr |-> NilAttr, entry |-> NilEntry, inode |-> NilInode,
           list |-> NilListing, snap |-> <<>>, seen |-> {}, due |-> NoDue,
           fd |-> 0, off |-> 0, len |-> 0, n |-> 0]

\* The precondition of "the next same operation before the entry's expiry".
Due(o) == IF o.set /\ now < o.expiry THEN [set |-> TRUE, val |-> o.val]
          ELSE NoDue

\* One more pending removal goroutine for key k.
Spawn(rm, k, spawn) == IF spawn THEN [rm EXCEPT ![k] = @ + 1] ELSE rm

\* The kernel's cache after a response that carries timeout d.
KernelPut(kc, k, v, d) ==
    [kc EXCEPT ![k] = [set |-> TRUE, val |-> v, until |-> now + d]]

\* The attributes an EntryOut carries, as the kernel's attribute cache holds them.
EntryAttr(e) ==
    [ino |-> e.ino, mode |-> e.mode, size |-> e.size,
     timeout |-> e.attrTimeout, readAt |-> e.readAt]

\* A sync.RWMutex nobody holds.
MuFree == [w |-> 0, r |-> {}]

\* The request mixes a run can carry; under "locks" the invocations' calls
\* into the DirCache are followed at the grain of its mutex, under "kernel"
\* the requests pass the kernel's caches before they reach the daemon, under
\* "metrics" the counters of the first MaxCalls events are followed, under
\* "logs" the log files of the first MaxEvents events, under "nodes" the
\* nodes handed to the transport layer, under "reaper" the removal goroutines
\* of one LookupCache key, under "streams" the streams Readdir returns,
\* under "kernelonly" the dispatcher of cmd/forkspoon/main.go, which keeps no
\* store of its own, under "logger" the RotatingLogger at the grain of its
\* mutex.
Workloads == {"getattr", "lookup", "readdir", "data", "locks", "kernel",
              "metrics", "logs", "nodes", "reaper", "streams", "kernelonly",
              "logger"}

\* ------------------------------------------------------------------ Init
Init ==
    /\ now = 0
    /\ cacheTTL \in 0..MaxTTL
    /\ workload \in Workloads
    /\ names = [p \in Paths |->
                  IF p = RootPath THEN 1 ELSE IF p = DirPath THEN 2
                  ELSE IF p = "/d/a" THEN 3 ELSE 0]
    /\ size = [i \in Inos |-> 0]
    /\ fds = {}
    /\ attrCache = <<>>
    /\ lookupCache = <<>>
    /\ dirCache = <<>>
    /\ attrRm = [p \in Paths |-> 0]
    /\ lookupRm = [p \in Paths |-> 0]
    /\ dirRm = [p \in Paths |-> 0]
    /\ dirMu = MuFree
    /\ metrics = NoMetrics
    /\ cacheLog \in {[open |-> TRUE, size |-> n, mu |-> 0, closed |-> FALSE,
                       rotating |-> 0, rotated |-> 0] :
                        n \in IF workload = "logger" THEN 0..MaxLogSize ELSE {0}}
    /\ transLog \in {[lines |-> 0, set |-> f] :
                       f \in IF workload = "kernelonly" THEN BOOLEAN ELSE {TRUE}}
    /\ logFiles \in {[raw |-> 0, gz |-> n, compress |-> 0, cleanup |-> 0] :
                       n \in IF Logging THEN {0, MAX_OLD_FILES} ELSE {0}}
    /\ event = NoEvent
    /\ gens = [i \in Inos |-> 0]
    /\ refs = {}
    /\ retired = {}
    /\ calls = [o \in {"GETATTR", "LOOKUP", "READDIR"} |->
                 [hits |-> 0, misses |-> 0]]
    /\ th = [t \in Threads |-> Idle]
    /\ resp = NoResp
    /\ kattr = [p \in Paths |-> NoRec]
    /\ kentry = [p \in Paths |-> NoRec]
    /\ lastPut = [attr |-> [p \in Paths |-> NoRec],
                  lookup |-> [p \in Paths |-> NoRec],
                  dir |-> [p \in Paths |-> NoRec]]
    /\ streams = <<>>
    /\ shown = [attr |-> [p \in Paths |-> -1],
                lookup |-> [p \in Paths |-> -1]]
    /\ owed = [attr |-> [p \in Paths |-> NoRec],
               lookup |-> [p \in Paths |-> NoRec],
               dir |-> [p \in Paths |-> NoRec]]

\* ----------------------------------------------------------------- clock
Tick ==
    /\ now < MaxTime
    /\ now' = now + 1
    /\ resp' = NoResp
    /\ UNCHANGED <<config, streams, shown, nodes, locks, telemetry, logging, backend, stores, removals, th, kernel, hist>>

\* ------------------------------------------------ removal goroutines
\* `go ac.Remove(path)`, spawned by AttrCache.Get, runs.
AttrCache_RemoveTask(path) ==
    /\ attrRm[path] > 0
    /\ attrRm' = [attrRm EXCEPT ![path] = @ - 1]
    /\ attrCache' = AttrCache_Remove(path)
    /\ UNCHANGED <<now, config, streams, shown, nodes, locks, telemetry, logging, backend, lookupCache, dirCache, lookupRm,
                   dirRm, th, resp, kernel, hist>>

\* `go lc.Remove(key)`, spawned by LookupCache.Get, runs.
LookupCache_RemoveTask(key) ==
    /\ lookupRm[key] > 0
    /\ lookupRm' = [lookupRm EXCEPT ![key] = @ - 1]
    /\ lookupCache' = LookupCache_Remove(key)
    /\ UNCHANGED <<now, config, streams, shown, nodes, locks, telemetry, logging, backend, attrCache, dirCache, attrRm, dirRm,
                   th, resp, kernel, hist>>

\* `go dc.Remove(path)`, spawned by DirCache.Get, runs.
DirCache_RemoveTask(path) ==
    /\ dirRm[path] > 0
    /\ dirMu = MuFree
    /\ dirRm' = [dirRm EXCEPT ![path] = @ - 1]
    /\ dirCache' = DirCache_Remove(path)
    /\ UNCHANGED <<now, config, streams, shown, nodes, locks, telemetry, logging, backend, attrCache, lookupCache, attrRm,
                   lookupRm, th, resp, kernel, hist>>

\* ---------------------------------------------------------------- Getattr
\* loopbackNode.Getattr / rootNode.Getattr up to the cache check: a hit returns.
Getattr_Start(t, p) ==
    /\ th[t].pc = "idle"
    /\ LET g == AttrCache_Get(p)
           due == Due(owed.attr[p])
       IN  /\ g.spawn => attrRm[p] < PendingCap
           /\ attrRm' = Spawn(attrRm, p, g.spawn)
           /\ calls' = Called("GETATTR", g.hit)
           /\ IF g.hit
              THEN /\ metrics' = Metered("GETATTR", TRUE)
                   /\ logTransaction("GETATTR", p, TRUE)
                   /\ resp' = [NoResp EXCEPT !.op = "GETATTR", !.key = p,
                                 !.hit = TRUE, !.attr = g.val, !.due = due]
                   /\ kattr' = KernelPut(kattr, p, g.val, g.val.timeout)
                   /\ th' = th
              ELSE /\ metrics' = Metered("GETATTR", FALSE)
                   /\ logTransaction("GETATTR", p, FALSE)
                   /\ th' = [th EXCEPT ![t] = [Idle EXCEPT !.pc = "lstat",
                                 !.op = "GETATTR", !.key = p, !.due = due]]
                   /\ UNCHANGED <<resp, kattr>>
    /\ owed' = [owed EXCEPT !.attr[p] = NoRec]
    /\ shown' = IF AttrCache_Get(p).hit
                THEN Shown("attr", p, AttrCache_Get(p).val.readAt) ELSE shown
    /\ UNCHANGED <<now, config, streams, nodes, locks, backend, stores, lookupRm, dirRm, kentry,
                   lastPut>>

\* The miss path's syscall.Lstat(p, &st).
Getattr_Lstat(t) ==
    /\ th[t].pc = "lstat"
    /\ th[t].op = "GETATTR"
    /\ \E r \in LstatOutcomes(th[t].key) :
         th' = [th EXCEPT ![t].pc = "put", ![t].err = r.err, ![t].st = r.st]
    /\ UNCHANGED <<now, config, streams, shown, nodes, locks, telemetry, logging, backend, stores, removals, resp, kernel, hist>>

\* A Getattr miss that forgets out.SetTimeout(cacheTTL).
Getattr_Out_NoTimeout(st) == AttrFromStat(NilAttr, st)

\* The AttrOut of a miss: out.FromStat(&st); out.SetTimeout(cacheTTL).
Getattr_Out(st) == SetTimeout(AttrFromStat(NilAttr, st), cacheTTL)

\* A Getattr miss that caches whatever the backend call left in st, also when
\* the call failed.
Getattr_Finish_CachesFailure(t) ==
    /\ th[t].pc = "put"
    /\ th[t].op = "GETATTR"
    /\ LET p == th[t].key
           out == Getattr_Out(th[t].st)
       IN  /\ attrCache' = AttrCache_Put(p, out, cacheTTL)
           /\ resp' = [NoResp EXCEPT !.op = "GETATTR", !.key = p,
                         !.errno = th[t].err, !.attr = out, !.due = th[t].due]
           /\ UNCHANGED <<kattr, hist>>
    /\ th' = [th EXCEPT ![t] = Idle]
    /\ UNCHANGED <<now, config, streams, shown, nodes, locks, telemetry, logging, backend, lookupCache, dirCache, removals,
                   kentry>>

\* The rest of the miss path: return the errno, or fill out, Put and return.
Getattr_Finish(t) ==
    /\ th[t].pc = "put"
    /\ th[t].op = "GETATTR"
    /\ LET p == th[t].key
           out == Getattr_Out(th[t].st)
       IN  IF th[t].err # "OK"
           THEN /\ resp' = [NoResp EXCEPT !.op = "GETATTR", !.key = p,
                              !.errno = th[t].err, !.due = th[t].due]
                /\ UNCHANGED <<attrCache, kattr, hist, shown>>
           ELSE /\ attrCache' = AttrCache_Put(p, out, cacheTTL)
                /\ shown' = Shown("attr", p, out.readAt)
                /\ resp' = [NoResp EXCEPT !.op = "GETATTR", !.key = p,
                              !.attr = out, !.due = th[t].due]
                /\ kattr' = KernelPut(kattr, p, out, out.timeout)
                /\ lastPut' = [lastPut EXCEPT !.attr[p] =
                                 [set |-> TRUE, val |-> out,
                                  expiry |-> now + cacheTTL,
                                  clean |-> attrRm[p] = 0]]
                /\ owed' = [owed EXCEPT !.attr[p] =
                              [set |-> TRUE, val |-> out,
                               expiry |-> now + cacheTTL]]
    /\ th' = [th EXCEPT ![t] = Idle]
    /\ UNCHANGED <<now, config, streams, nodes, locks, telemetry, logging, backend, lookupCache, dirCache, removals,
                   kentry>>

\* ----------------------------------------------------------------- Lookup
\* rootNode.Lookup / loopbackNode.Lookup up to the cache check: a hit returns.
Lookup_Start(t, parent, name) ==
    /\ th[t].pc = "idle"
    /\ LET cacheKey == Join(parent, name)
           g == LookupCache_Get(cacheKey)
           due == Due(owed.lookup[cacheKey])
       IN  /\ g.spawn => lookupRm[cacheKey] < PendingCap
           /\ lookupRm' = Spawn(lookupRm, cacheKey, g.spawn)
           /\ calls' = Called("LOOKUP", g.hit)
           /\ IF g.hit
              THEN /\ metrics' = Metered("LOOKUP", TRUE)
                   /\ logTransaction("LOOKUP", cacheKey, TRUE)
                   /\ resp' = [NoResp EXCEPT !.op = "LOOKUP", !.key = cacheKey,
                                 !.hit = TRUE, !.entry = g.entry,
                                 !.inode = g.inode, !.due = due]
                   /\ kentry' = KernelPut(kentry, cacheKey, g.entry,
                                          g.entry.entryTimeout)
                   /\ kattr' = KernelPut(kattr, cacheKey, EntryAttr(g.entry),
                                         g.entry.attrTimeout)
                   /\ th' = th
              ELSE /\ metrics' = Metered("LOOKUP", FALSE)
                   /\ logTransaction("LOOKUP", cacheKey, FALSE)
                   /\ th' = [th EXCEPT ![t] = [Idle EXCEPT !.pc = "lstat",
                                 !.op = "LOOKUP", !.key = cacheKey,
                                 !.due = due]]
                   /\ UNCHANGED <<resp, kernel>>
           /\ owed' = [owed EXCEPT !.lookup[cacheKey] = NoRec]
           /\ refs' = IF g.hit THEN HandOut(g.inode) ELSE refs
           /\ shown' = IF g.hit THEN Shown("lookup", cacheKey, g.entry.readAt)
                       ELSE shown
    /\ UNCHANGED <<now, config, streams, gens, retired, locks, backend, stores, attrRm, dirRm, lastPut>>

\* The miss path's syscall.Lstat(p, &st).
Lookup_Lstat(t) ==
    /\ th[t].pc = "lstat"
    /\ th[t].op = "LOOKUP"
    /\ \E r \in LstatOutcomes(th[t].key) :
         th' = [th EXCEPT ![t].pc = "put", ![t].err = r.err, ![t].st = r.st]
    /\ UNCHANGED <<now, config, streams, shown, nodes, locks, telemetry, logging, backend, stores, removals, resp, kernel, hist>>

\* The EntryOut of a miss: FromStat, SetEntryTimeout, SetAttrTimeout.
Lookup_Out(st) ==
    SetAttrTimeout(SetEntryTimeout(EntryFromStat(NilEntry, st), cacheTTL),
                   cacheTTL)

\* n.NewInode(ctx, node, fs.StableAttr{Mode: st.Mode, Ino: st.Ino})
NewInode(st) == [ino |-> st.ino, mode |-> st.mode, gen |-> st.gen]

\* The rest of the miss path: return the errno, or NewInode, Put and return.
Lookup_Finish(t) ==
    /\ th[t].pc = "put"
    /\ th[t].op = "LOOKUP"
    /\ LET cacheKey == th[t].key
           out == Lookup_Out(th[t].st)
           inode == NewInode(th[t].st)
           rec == [inode |-> inode, entry |-> out]
       IN  IF th[t].err # "OK"
           THEN /\ resp' = [NoResp EXCEPT !.op = "LOOKUP", !.key = cacheKey,
                              !.errno = th[t].err, !.due = th[t].due]
                /\ UNCHANGED <<lookupCache, kernel, hist, refs, retired, shown>>
           ELSE /\ lookupCache' = LookupCache_Put(cacheKey, inode, out, cacheTTL)
                /\ shown' = Shown("lookup", cacheKey, out.readAt)
                /\ refs' = HandOut(inode)
                /\ retired' = Built(inode)
                /\ resp' = [NoResp EXCEPT !.op = "LOOKUP", !.key = cacheKey,
                              !.entry = out, !.inode = inode,
                              !.due = th[t].due]
                /\ kentry' = KernelPut(kentry, cacheKey, out, out.entryTimeout)
                /\ kattr' = KernelPut(kattr, cacheKey, EntryAttr(out),
                                      out.attrTimeout)
                /\ lastPut' = [lastPut EXCEPT !.lookup[cacheKey] =
                                 [set |-> TRUE, val |-> rec,
                                  expiry |-> now + cacheTTL,
                                  clean |-> lookupRm[cacheKey] = 0]]
                /\ owed' = [owed EXCEPT !.lookup[cacheKey] =
                              [set |-> TRUE, val |-> rec,
                               expiry |-> now + cacheTTL]]
    /\ th' = [th EXCEPT ![t] = Idle]
    /\ UNCHANGED <<now, config, streams, gens, locks, telemetry, logging, backend, attrCache, dirCache, removals>>

\* ---------------------------------------------------------------- Readdir
\* The order in which the backend returns the names of a directory.
NameOrder == <<"a", "b">>

\* The listing {Name, Mode, Ino} of a directory under the name space nm.
DirItemsOf(nm, dirPath) ==
    LET present(n) == nm[dirPath] # 0 /\ nm[Join(dirPath, n)] # 0
        item(n) == [name |-> n, mode |-> ModeOf(Join(dirPath, n)),
                    ino |-> nm[Join(dirPath, n)]]
        F[i \in 0..Len(NameOrder)] ==
            IF i = 0 THEN <<>>
            ELSE IF present(NameOrder[i]) THEN Append(F[i - 1], item(NameOrder[i]))
                 ELSE F[i - 1]
    IN  F[Len(NameOrder)]

\* The names f.Readdir(-1) returns for the directory as it is now.
ReaddirNames(dirPath) ==
    LET items == DirItemsOf(names, dirPath)
    IN  [i \in 1..Len(items) |-> items[i].name]

\* History: every Readdir in flight past its directory read records the
\* listings the backend directory goes through, under the name space nm.
Observe(nm) ==
    [t \in Threads |->
       IF th[t].op = "READDIR" /\ th[t].pc \in {"lstatEntry", "putdir"}
       THEN [th[t] EXCEPT !.seen = @ \cup {DirItemsOf(nm, th[t].key)}]
       ELSE th[t]]

\* loopbackNode.Readdir up to the cache check: a hit returns a CachedDirStream.
Readdir_Start(t, dirPath) ==
    /\ th[t].pc = "idle"
    /\ LET g == DirCache_Get(dirPath)
           due == Due(owed.dir[dirPath])
       IN  /\ g.spawn => dirRm[dirPath] < PendingCap
           /\ dirRm' = Spawn(dirRm, dirPath, g.spawn)
           /\ calls' = Called("READDIR", g.hit)
           /\ IF g.hit
              THEN /\ metrics' = Metered("READDIR", TRUE)
                   /\ logTransaction("READDIR", dirPath, TRUE)
                   /\ resp' = [NoResp EXCEPT !.op = "READDIR", !.key = dirPath,
                                 !.hit = TRUE, !.list = g.entries, !.due = due]
                   /\ th' = th
              ELSE /\ metrics' = Metered("READDIR", FALSE)
                   /\ logTransaction("READDIR", dirPath, FALSE)
                   /\ th' = [th EXCEPT ![t] = [Idle EXCEPT !.pc = "readdir",
                                 !.op = "READDIR", !.key = dirPath,
                                 !.due = due]]
                   /\ resp' = resp
    /\ owed' = [owed EXCEPT !.dir[dirPath] = NoRec]
    /\ streams' = IF DirCache_Get(dirPath).hit
                  THEN Opened(DirCache_Get(dirPath).entries) ELSE streams
    /\ UNCHANGED <<now, config, shown, nodes, locks, backend, stores, attrRm, lookupRm, kernel,
                   lastPut>>

\* What os.Open(dirPath) followed by f.Readdir(-1) can return.
ReaddirOutcomes(dirPath) ==
    {IF Exists(dirPath) THEN [err |-> "OK", list |-> ReaddirNames(dirPath)]
     ELSE [err |-> "ENOENT", list |-> <<>>],
     [err |-> "EIO", list |-> <<>>]}

\* The miss path's os.Open(dirPath) and f.Readdir(-1); an error returns.
Readdir_Read(t) ==
    /\ th[t].pc = "readdir"
    /\ \E r \in ReaddirOutcomes(th[t].key) :
         IF r.err # "OK"
         THEN /\ resp' = [NoResp EXCEPT !.op = "READDIR", !.key = th[t].key,
                            !.errno = r.err, !.due = th[t].due]
              /\ th' = [th EXCEPT ![t] = Idle]
         ELSE /\ th' = [th EXCEPT
                   ![t].pc = IF r.list = <<>> THEN "putdir" ELSE "lstatEntry",
                   ![t].list = r.list, ![t].idx = 1,
                   ![t].acc = [items |-> <<>>, readAt |-> now],
                   ![t].snap = DirItemsOf(names, th[t].key),
                   ![t].seen = {DirItemsOf(names, th[t].key)}]
              /\ resp' = resp
    /\ UNCHANGED <<now, config, streams, shown, nodes, locks, telemetry, logging, backend, stores, removals, kernel, hist>>

\* One turn of the conversion loop: Lstat the entry, append it when that worked.
Readdir_LstatEntry(t) ==
    /\ th[t].pc = "lstatEntry"
    /\ LET e == th[t].list[th[t].idx]
           last == th[t].idx = Len(th[t].list)
       IN  \E r \in LstatOutcomes(Join(th[t].key, e)) :
             th' = [th EXCEPT
                ![t].acc.items =
                    IF r.err = "OK"
                    THEN Append(@, [name |-> e, mode |-> r.st.mode,
                                    ino |-> r.st.ino])
                    ELSE @,
                ![t].idx = @ + 1,
                ![t].pc = IF last THEN "putdir" ELSE "lstatEntry"]
    /\ UNCHANGED <<now, config, streams, shown, nodes, locks, telemetry, logging, backend, stores, removals, resp, kernel, hist>>

\* dirCache.Put(dirPath, fuseEntries, cacheTTL) and the return of the stream.
Readdir_Finish(t) ==
    /\ th[t].pc = "putdir"
    /\ LET dirPath == th[t].key
           fuseEntries == th[t].acc
       IN  /\ dirCache' = DirCache_Put(dirPath, fuseEntries, cacheTTL)
           /\ resp' = [NoResp EXCEPT !.op = "READDIR", !.key = dirPath,
                         !.list = fuseEntries, !.snap = th[t].snap,
                         !.seen = th[t].seen, !.due = th[t].due]
           /\ lastPut' = [lastPut EXCEPT !.dir[dirPath] =
                            [set |-> TRUE, val |-> fuseEntries,
                             expiry |-> now + cacheTTL,
                             clean |-> dirRm[dirPath] = 0]]
           /\ owed' = [owed EXCEPT !.dir[dirPath] =
                         [set |-> TRUE, val |-> fuseEntries,
                          expiry |-> now + cacheTTL]]
           /\ streams' = Opened(fuseEntries)
    /\ th' = [th EXCEPT ![t] = Idle]
    /\ UNCHANGED <<now, config, shown, nodes, locks, telemetry, logging, backend, attrCache, lookupCache, removals,
                   kernel>>

\* ------------------------------------------- the rotation's goroutines
\* `go l.compressFile(newName)` runs: the rotated file cannot be opened, or
\* the .gz file is created and the copy fails, or the .gz file replaces it.
RotatingLogger_compressFile ==
    /\ logFiles.compress > 0
    /\ \E r \in {"ok", "open", "copy"} :
         logFiles' = [logFiles EXCEPT
                        !.compress = @ - 1,
                        !.raw = IF r = "ok" THEN @ - 1 ELSE @,
                        !.gz = IF r = "open" THEN @ ELSE @ + 1]
    /\ UNCHANGED <<now, config, streams, shown, nodes, locks, telemetry, backend, stores, removals, th,
                   resp, kernel, hist, cacheLog, transLog, event>>

\* `go l.cleanupOldFiles()` runs: with more than maxBackups .gz files, the
\* oldest are removed.
RotatingLogger_cleanupOldFiles ==
    /\ logFiles.cleanup > 0
    /\ logFiles' = [logFiles EXCEPT
                      !.cleanup = @ - 1,
                      !.gz = IF @ <= MAX_OLD_FILES THEN @ ELSE MAX_OLD_FILES]
    /\ UNCHANGED <<now, config, streams, shown, nodes, locks, telemetry, backend, stores, removals, th,
                   resp, kernel, hist, cacheLog, transLog, event>>

\* ------------------------------------------------ the kernel's caches
\* The kernel holds an answer for k whose timeout has not elapsed.
KernelHolds(kc, k) == kc[k].set /\ now < kc[k].until

\* A stat of p through the mount that the kernel always hands to the daemon.
Stat_PastKernel(t, p) == Getattr_Start(t, p)

\* A stat of p through the mount: the kernel answers from its attribute
\* cache within the timeout, and sends GETATTR to the daemon otherwise.
Stat(t, p) ==
    IF KernelHolds(kattr, p)
    THEN /\ resp' = [NoResp EXCEPT !.op = "STAT", !.key = p,
                       !.attr = kattr[p].val]
         /\ UNCHANGED <<now, config, streams, shown, nodes, locks, telemetry, logging, backend, stores, removals, th,
                        kernel, hist>>
    ELSE Getattr_Start(t, p)

\* The resolution of name under parent through the mount: the kernel answers
\* from its entry cache within the timeout, and sends LOOKUP otherwise.
Resolve(t, parent, name) ==
    IF KernelHolds(kentry, Join(parent, name))
    THEN /\ resp' = [NoResp EXCEPT !.op = "RESOLVE",
                       !.key = Join(parent, name),
                       !.entry = kentry[Join(parent, name)].val]
         /\ UNCHANGED <<now, config, streams, shown, nodes, locks, telemetry, logging, backend, stores, removals, th,
                        kernel, hist>>
    ELSE Lookup_Start(t, parent, name)

\* ------------------------------------ the DirCache under its mutex
\* The keys the invocations use under the "locks" workload.
LockKeys == {RootPath, DirPath}

\* The listing an invocation built for a directory and hands to Put; no
\* directory read is followed under this workload, so readAt stays 0.
ListingOf(path) ==
    IF path = DirPath
    THEN [items |-> DirItemsOf(names, DirPath), readAt |-> 0]
    ELSE [items |-> <<[name |-> "d", mode |-> ModeOf(DirPath),
                       ino |-> names[DirPath]]>>, readAt |-> 0]

\* dc.mu.RLock() returns: no writer holds the mutex and none is waiting for it.
CanRLock == dirMu.w = 0 /\ \A u \in Threads : th[u].pc # "lock"

\* dc.mu.Lock() returns: nobody holds the mutex.
CanLock == dirMu = MuFree

\* An invocation calls dirCache.Get(path) and reaches dc.mu.RLock().
DirCache_Get_Call(t, path) ==
    /\ th[t].pc = "idle"
    /\ th' = [th EXCEPT ![t] = [Idle EXCEPT !.pc = "rlock", !.op = "GET",
                                  !.key = path]]
    /\ UNCHANGED <<now, config, streams, shown, nodes, locks, telemetry, logging, backend, stores, removals, resp, kernel,
                   hist>>

\* dc.mu.RLock() returns.
DirCache_Get_RLock(t) ==
    /\ th[t].pc = "rlock"
    /\ CanRLock
    /\ dirMu' = [dirMu EXCEPT !.r = @ \cup {t}]
    /\ th' = [th EXCEPT ![t].pc = "rlocked"]
    /\ UNCHANGED <<now, config, streams, shown, nodes, telemetry, logging, backend, stores, removals, resp, kernel, hist>>

\* Whether the removal goroutine the Get of path starts is followed: inside
\* the lock the Get cannot wait for an earlier goroutine to run, so of the
\* goroutines of one key beyond PendingCap only the outstanding ones are.
Followed(g, path) == g.spawn /\ dirRm[path] < PendingCap

\* A DirCache.Get that returns on the expired branch without RUnlock.
DirCache_Get_Return_KeepsRLock(t) ==
    /\ th[t].pc = "rlocked"
    /\ LET g == DirCache_Get(th[t].key)
       IN  /\ dirRm' = Spawn(dirRm, th[t].key, Followed(g, th[t].key))
           /\ resp' = [NoResp EXCEPT !.op = "GET", !.key = th[t].key,
                         !.hit = g.hit, !.list = g.entries]
           /\ dirMu' = IF g.spawn THEN dirMu ELSE [dirMu EXCEPT !.r = @ \ {t}]
    /\ th' = [th EXCEPT ![t] = Idle]
    /\ UNCHANGED <<now, config, streams, shown, nodes, telemetry, logging, backend, stores, attrRm,
                   lookupRm, kernel, hist>>

\* Where an invocation goes on once its dirCache.Get has returned g: a bare
\* Get is done, a Readdir handler counts and logs the event next.
AfterGet(t, g) ==
    IF th[t].op = "READDIR"
    THEN [th[t] EXCEPT !.pc = IF g.hit THEN "loghit" ELSE "logmiss",
                       !.acc = g.entries]
    ELSE Idle

\* A DirCache.Get that hands the read lock on to the handler on a miss.
DirCache_Get_Return_HoldsOnMiss(t) ==
    /\ th[t].pc = "rlocked"
    /\ LET g == DirCache_Get(th[t].key)
       IN  /\ dirRm' = Spawn(dirRm, th[t].key, Followed(g, th[t].key))
           /\ resp' = [NoResp EXCEPT !.op = "GET", !.key = th[t].key,
                         !.hit = g.hit, !.list = g.entries]
           /\ dirMu' = IF th[t].op = "READDIR" /\ ~g.hit THEN dirMu
                       ELSE [dirMu EXCEPT !.r = @ \ {t}]
           /\ th' = [th EXCEPT ![t] = AfterGet(t, g)]
    /\ UNCHANGED <<now, config, streams, shown, nodes, telemetry, logging, backend, stores, attrRm, lookupRm, kernel, hist>>

\* The body of DirCache.Get and the deferred dc.mu.RUnlock().
DirCache_Get_Return(t) ==
    /\ th[t].pc = "rlocked"
    /\ LET g == DirCache_Get(th[t].key)
       IN  /\ dirRm' = Spawn(dirRm, th[t].key, Followed(g, th[t].key))
           /\ resp' = [NoResp EXCEPT !.op = "GET", !.key = th[t].key,
                         !.hit = g.hit, !.list = g.entries]
           /\ th' = [th EXCEPT ![t] = AfterGet(t, g)]
    /\ dirMu' = [dirMu EXCEPT !.r = @ \ {t}]
    /\ UNCHANGED <<now, config, streams, shown, nodes, telemetry, logging, backend, stores, attrRm, lookupRm, kernel, hist>>

\* loopbackNode.Readdir is called and reaches the dc.mu.RLock() of
\* dirCache.Get(dirPath).
Readdir_Call(t, dirPath) ==
    /\ th[t].pc = "idle"
    /\ th' = [th EXCEPT ![t] = [Idle EXCEPT !.pc = "rlock", !.op = "READDIR",
                                  !.key = dirPath]]
    /\ UNCHANGED <<now, config, streams, shown, nodes, locks, telemetry, logging, backend, stores, removals, resp, kernel,
                   hist>>

\* The handler's updateMetrics and logTransaction after dirCache.Get has
\* returned: a hit returns the stream, a miss goes on to the directory read.
Readdir_Log(t) ==
    /\ th[t].pc \in {"loghit", "logmiss"}
    /\ LET hit == th[t].pc = "loghit"
           dirPath == th[t].key
       IN  /\ calls' = Called("READDIR", hit)
           /\ metrics' = Metered("READDIR", hit)
           /\ logTransaction("READDIR", dirPath, hit)
           /\ IF hit
              THEN /\ resp' = [NoResp EXCEPT !.op = "READDIR", !.key = dirPath,
                                 !.hit = TRUE, !.list = th[t].acc]
                   /\ th' = [th EXCEPT ![t] = Idle]
              ELSE /\ th' = [th EXCEPT ![t] = [Idle EXCEPT !.pc = "opendir",
                                 !.op = "READDIR", !.key = dirPath]]
                   /\ resp' = resp
    /\ UNCHANGED <<now, config, streams, shown, nodes, locks, backend, stores, removals, kernel, hist>>

\* The miss path's os.Open(dirPath), f.Readdir(-1) and conversion loop, taken
\* as one backend call; an error returns, a listing goes on to
\* dirCache.Put(dirPath, fuseEntries, cacheTTL) and reaches dc.mu.Lock().
Readdir_Open(t) ==
    /\ th[t].pc = "opendir"
    /\ \E err \in {IF Exists(th[t].key) THEN "OK" ELSE "ENOENT", "EIO"} :
         IF err # "OK"
         THEN /\ resp' = [NoResp EXCEPT !.op = "READDIR", !.key = th[t].key,
                            !.errno = err]
              /\ th' = [th EXCEPT ![t] = Idle]
         ELSE /\ th' = [th EXCEPT ![t].pc = "lock",
                                  ![t].acc = ListingOf(th[t].key)]
              /\ resp' = resp
    /\ UNCHANGED <<now, config, streams, shown, nodes, locks, telemetry, logging, backend, stores, removals, kernel, hist>>

\* An invocation calls dirCache.Put(path, entries, cacheTTL) and reaches
\* dc.mu.Lock().
DirCache_Put_Call(t, path) ==
    /\ th[t].pc = "idle"
    /\ th' = [th EXCEPT ![t] = [Idle EXCEPT !.pc = "lock", !.op = "PUT",
                                  !.key = path, !.acc = ListingOf(path)]]
    /\ UNCHANGED <<now, config, streams, shown, nodes, locks, telemetry, logging, backend, stores, removals, resp, kernel,
                   hist>>

\* dc.mu.Lock() returns.
DirCache_Put_Lock(t) ==
    /\ th[t].pc = "lock"
    /\ CanLock
    /\ dirMu' = [dirMu EXCEPT !.w = t]
    /\ th' = [th EXCEPT ![t].pc = "locked"]
    /\ UNCHANGED <<now, config, streams, shown, nodes, telemetry, logging, backend, stores, removals, resp, kernel, hist>>

\* A DirCache.Put that returns without dc.mu.Unlock().
DirCache_Put_Return_KeepsLock(t) ==
    /\ th[t].pc = "locked"
    /\ dirCache' = DirCache_Put(th[t].key, th[t].acc, cacheTTL)
    /\ lastPut' = [lastPut EXCEPT !.dir[th[t].key] =
                     [set |-> TRUE, val |-> th[t].acc,
                      expiry |-> now + cacheTTL,
                      clean |-> dirRm[th[t].key] = 0]]
    /\ dirMu' = dirMu
    /\ resp' = [NoResp EXCEPT !.op = "PUT", !.key = th[t].key]
    /\ th' = [th EXCEPT ![t] = Idle]
    /\ UNCHANGED <<now, config, streams, shown, nodes, telemetry, logging, backend, attrCache, lookupCache, removals,
                   kernel, owed>>

\* The body of DirCache.Put and the deferred dc.mu.Unlock().
DirCache_Put_Return(t) ==
    /\ th[t].pc = "locked"
    /\ dirCache' = DirCache_Put(th[t].key, th[t].acc, cacheTTL)
    /\ lastPut' = [lastPut EXCEPT !.dir[th[t].key] =
                     [set |-> TRUE, val |-> th[t].acc,
                      expiry |-> now + cacheTTL,
                      clean |-> dirRm[th[t].key] = 0]]
    /\ dirMu' = [dirMu EXCEPT !.w = 0]
    /\ resp' = [NoResp EXCEPT !.op = "PUT", !.key = th[t].key]
    /\ th' = [th EXCEPT ![t] = Idle]
    /\ UNCHANGED <<now, config, streams, shown, nodes, telemetry, logging, backend, attrCache, lookupCache, removals,
                   kernel, owed>>

\* ------------------------------------------------- passthrough handlers
\* The descriptor the next successful open returns.
NewFd == CHOOSE f \in 1..MaxOpen : \A x \in fds : x.fd # f

\* Fstat / Lstat of inode i bound at path p, as the backend will answer.
StatOf(p, i, sz) ==
    [ino |-> i, mode |-> ModeOf(p), size |-> sz, readAt |-> now,
     gen |-> IF Exists(p) THEN gens[i] ELSE Allocate(i)[i]]

\* The EntryOut of Create and Mkdir: FromStat, SetEntryTimeout, SetAttrTimeout.
Create_Out(st) ==
    SetAttrTimeout(SetEntryTimeout(EntryFromStat(NilEntry, st), cacheTTL),
                   cacheTTL)

\* The errno of syscall.Open(p, flags|O_CREATE, mode), "OK" when it succeeds.
CreateErrno(p) ==
    IF ~Exists(ParentOf(p)) THEN "ENOENT"
    ELSE IF Cardinality(fds) >= MaxOpen THEN "EMFILE"
    ELSE IF ~Exists(p) /\ FreeInos = {} THEN "ENOSPC"
    ELSE "OK"

\* A Create that invalidates the parent's cached listing when it succeeds.
Create_Invalidates(parent, name) ==
    LET p == Join(parent, name)
        e == CreateErrno(p)
    IN  /\ IF e # "OK"
           THEN /\ resp' = [NoResp EXCEPT !.op = "CREATE", !.key = p,
                              !.errno = e]
                /\ UNCHANGED <<backend, kernel, th, stores>>
           ELSE LET i == IF Exists(p) THEN names[p] ELSE NewIno
                      sz == IF Exists(p) THEN size[i] ELSE 0
                      out == Create_Out(StatOf(p, i, sz))
                  IN  /\ names' = [names EXCEPT ![p] = i]
                      /\ size' = [size EXCEPT ![i] = sz]
                      /\ fds' = fds \cup {[fd |-> NewFd, ino |-> i, path |-> p]}
                      /\ resp' = [NoResp EXCEPT !.op = "CREATE", !.key = p,
                                    !.entry = out,
                                    !.inode = NewInode(StatOf(p, i, sz)),
                                    !.fd = NewFd]
                      /\ dirCache' = DirCache_Remove(parent)
                      /\ UNCHANGED <<kernel, attrCache, lookupCache>>
                      /\ th' = Observe(names')
        /\ metrics' = Metered("CREATE", FALSE)
        /\ logTransaction("CREATE", p, FALSE)
        /\ gens' = IF e = "OK" /\ ~Exists(p) THEN Allocate(NewIno) ELSE gens
        /\ refs' = IF e = "OK" THEN HandOut(resp'.inode) ELSE refs
        /\ retired' = IF e = "OK" THEN Built(resp'.inode) ELSE retired
        /\ UNCHANGED <<now, config, streams, shown, locks, calls, removals, hist>>

\* loopbackNode.Create / rootNode.Create
Create(parent, name) ==
    LET p == Join(parent, name)
        e == CreateErrno(p)
    IN  /\ IF e # "OK"
           THEN /\ resp' = [NoResp EXCEPT !.op = "CREATE", !.key = p,
                              !.errno = e]
                /\ UNCHANGED <<backend, kernel, th>>
           ELSE LET i == IF Exists(p) THEN names[p] ELSE NewIno
                      sz == IF Exists(p) THEN size[i] ELSE 0
                      out == Create_Out(StatOf(p, i, sz))
                  IN  /\ names' = [names EXCEPT ![p] = i]
                      /\ size' = [size EXCEPT ![i] = sz]
                      /\ fds' = fds \cup {[fd |-> NewFd, ino |-> i, path |-> p]}
                      /\ resp' = [NoResp EXCEPT !.op = "CREATE", !.key = p,
                                    !.entry = out,
                                    !.inode = NewInode(StatOf(p, i, sz)),
                                    !.fd = NewFd]
                      /\ UNCHANGED kernel
                      /\ th' = Observe(names')
        /\ metrics' = Metered("CREATE", FALSE)
        /\ logTransaction("CREATE", p, FALSE)
        /\ gens' = IF e = "OK" /\ ~Exists(p) THEN Allocate(NewIno) ELSE gens
        /\ refs' = IF e = "OK" THEN HandOut(resp'.inode) ELSE refs
        /\ retired' = IF e = "OK" THEN Built(resp'.inode) ELSE retired
        /\ UNCHANGED <<now, config, streams, shown, locks, calls, stores, removals, hist>>

\* The errno of syscall.Mkdir(p, mode).
MkdirErrno(p) ==
    IF ~Exists(ParentOf(p)) THEN "ENOENT"
    ELSE IF Exists(p) THEN "EEXIST"
    ELSE IF FreeInos = {} THEN "ENOSPC"
    ELSE "OK"

\* loopbackNode.Mkdir / rootNode.Mkdir
Mkdir(parent, name) ==
    LET p == Join(parent, name)
        e == MkdirErrno(p)
    IN  /\ IF e # "OK"
           THEN /\ resp' = [NoResp EXCEPT !.op = "MKDIR", !.key = p,
                              !.errno = e]
                /\ UNCHANGED <<backend, kernel, th>>
           ELSE LET i == NewIno
                      out == Create_Out(StatOf(p, i, 0))
                  IN  /\ names' = [names EXCEPT ![p] = i]
                      /\ size' = [size EXCEPT ![i] = 0]
                      /\ fds' = fds
                      /\ resp' = [NoResp EXCEPT !.op = "MKDIR", !.key = p,
                                    !.entry = out,
                                    !.inode = NewInode(StatOf(p, i, 0))]
                      /\ UNCHANGED kernel
                      /\ th' = Observe(names')
        /\ metrics' = Metered("MKDIR", FALSE)
        /\ logTransaction("MKDIR", p, FALSE)
        /\ gens' = IF e = "OK" /\ ~Exists(p) THEN Allocate(NewIno) ELSE gens
        /\ refs' = IF e = "OK" THEN HandOut(resp'.inode) ELSE refs
        /\ retired' = IF e = "OK" THEN Built(resp'.inode) ELSE retired
        /\ UNCHANGED <<now, config, streams, shown, locks, calls, stores, removals, hist>>

\* An Unlink that evicts the path's entries from the stores when it succeeds.
Unlink_Evicts(parent, name) ==
    LET p == Join(parent, name)
    IN  /\ IF ~Exists(p)
           THEN /\ resp' = [NoResp EXCEPT !.op = "UNLINK", !.key = p,
                              !.errno = "ENOENT"]
                /\ UNCHANGED <<names, th, stores>>
           ELSE /\ names' = [names EXCEPT ![p] = 0]
                /\ resp' = [NoResp EXCEPT !.op = "UNLINK", !.key = p]
                /\ th' = Observe(names')
                /\ attrCache' = AttrCache_Remove(p)
                /\ lookupCache' = LookupCache_Remove(p)
                /\ dirCache' = DirCache_Remove(parent)
        /\ metrics' = Metered("UNLINK", FALSE)
        /\ logTransaction("UNLINK", p, FALSE)
        /\ UNCHANGED <<now, config, streams, shown, nodes, locks, calls, size, fds, removals, kernel, hist>>

\* An Unlink that gives up with EIO when a log write of its event failed.
Unlink_FailsWhenLogFails(parent, name) ==
    LET p == Join(parent, name)
    IN  /\ metrics' = Metered("UNLINK", FALSE)
        /\ logTransaction("UNLINK", p, FALSE)
        /\ IF ~event'.transOk
           THEN /\ resp' = [NoResp EXCEPT !.op = "UNLINK", !.key = p,
                              !.errno = "EIO"]
                /\ UNCHANGED <<names, th>>
           ELSE IF ~Exists(p)
           THEN /\ resp' = [NoResp EXCEPT !.op = "UNLINK", !.key = p,
                              !.errno = "ENOENT"]
                /\ UNCHANGED <<names, th>>
           ELSE /\ names' = [names EXCEPT ![p] = 0]
                /\ resp' = [NoResp EXCEPT !.op = "UNLINK", !.key = p]
                /\ th' = Observe(names')
        /\ UNCHANGED <<now, config, streams, shown, nodes, locks, calls, size, fds, stores, removals,
                       kernel, hist>>

\* loopbackNode.Unlink / rootNode.Unlink
Unlink(parent, name) ==
    LET p == Join(parent, name)
    IN  /\ IF ~Exists(p)
           THEN /\ resp' = [NoResp EXCEPT !.op = "UNLINK", !.key = p,
                              !.errno = "ENOENT"]
                /\ UNCHANGED <<names, th>>
           ELSE /\ names' = [names EXCEPT ![p] = 0]
                /\ resp' = [NoResp EXCEPT !.op = "UNLINK", !.key = p]
                /\ th' = Observe(names')
        /\ metrics' = Metered("UNLINK", FALSE)
        /\ logTransaction("UNLINK", p, FALSE)
        /\ UNCHANGED <<now, config, streams, shown, nodes, locks, calls, size, fds, stores, removals, kernel, hist>>

\* The errno of syscall.Rmdir(p).
RmdirErrno(p) ==
    IF ~Exists(p) THEN "ENOENT"
    ELSE IF \E n \in Names : names[Join(p, n)] # 0 THEN "ENOTEMPTY"
    ELSE "OK"

\* loopbackNode.Rmdir / rootNode.Rmdir
Rmdir(parent, name) ==
    LET p == Join(parent, name)
        e == RmdirErrno(p)
    IN  /\ resp' = [NoResp EXCEPT !.op = "RMDIR", !.key = p, !.errno = e]
        /\ names' = IF e = "OK" THEN [names EXCEPT ![p] = 0] ELSE names
        /\ th' = IF e = "OK" THEN Observe(names') ELSE th
        /\ metrics' = Metered("RMDIR", FALSE)
        /\ logTransaction("RMDIR", p, FALSE)
        /\ UNCHANGED <<now, config, streams, shown, nodes, locks, calls, size, fds, stores, removals, kernel, hist>>

\* loopbackNode.Rename / rootNode.Rename
Rename(parent, name, newParent, newName) ==
    LET oldPath == Join(parent, name)
        newPath == Join(newParent, newName)
    IN  /\ IF ~Exists(oldPath)
           THEN /\ resp' = [NoResp EXCEPT !.op = "RENAME", !.key = oldPath,
                              !.errno = "ENOENT"]
                /\ UNCHANGED <<names, th>>
           ELSE /\ names' = IF oldPath = newPath THEN names
                            ELSE [names EXCEPT ![newPath] = names[oldPath],
                                               ![oldPath] = 0]
                /\ resp' = [NoResp EXCEPT !.op = "RENAME", !.key = oldPath]
                /\ th' = Observe(names')
        /\ metrics' = Metered("RENAME", FALSE)
        /\ logTransaction("RENAME", oldPath, FALSE)
        /\ UNCHANGED <<now, config, streams, shown, nodes, locks, calls, size, fds, stores, removals, kernel, hist>>

\* The errno of syscall.Open(p, flags, 0).
OpenErrno(p) ==
    IF ~Exists(p) THEN "ENOENT"
    ELSE IF Cardinality(fds) >= MaxOpen THEN "EMFILE"
    ELSE "OK"

\* loopbackNode.Open
Open(p) ==
    LET e == OpenErrno(p)
    IN  /\ resp' = [NoResp EXCEPT !.op = "OPEN", !.key = p, !.errno = e,
                      !.fd = IF e = "OK" THEN NewFd ELSE 0]
        /\ fds' = IF e = "OK"
                  THEN fds \cup {[fd |-> NewFd, ino |-> names[p], path |-> p]}
                  ELSE fds
        /\ metrics' = Metered("OPEN", FALSE)
        /\ logTransaction("OPEN", p, FALSE)
        /\ UNCHANGED <<now, config, streams, shown, nodes, locks, calls, names, size, stores, removals, th, kernel,
                       hist>>

\* syscall.Pread(fd, dest, off) with len(dest) = len: the bytes read.
Pread(ino, len, off) ==
    IF off >= size[ino] THEN 0
    ELSE IF size[ino] - off < len THEN size[ino] - off ELSE len

\* A Read that stops at the file size the attribute store holds for the path.
Read_ToCachedSize(f, len, off) ==
    /\ f \in fds
    /\ LET g == AttrCache_Get(f.path)
           n == IF g.hit /\ off >= g.val.size THEN 0
                ELSE Pread(f.ino, len, off)
       IN  resp' = [NoResp EXCEPT !.op = "READ", !.key = f.path, !.fd = f.fd,
                      !.off = off, !.len = len, !.n = n]
    /\ metrics' = Metered("READ", FALSE)
    /\ logTransaction("READ", f.path, FALSE)
    /\ UNCHANGED <<now, config, streams, shown, nodes, locks, calls, backend, stores, removals, th, kernel, hist>>

\* loopbackFile.Read
Read(f, len, off) ==
    /\ f \in fds
    /\ resp' = [NoResp EXCEPT !.op = "READ", !.key = f.path, !.fd = f.fd,
                  !.off = off, !.len = len, !.n = Pread(f.ino, len, off)]
    /\ metrics' = Metered("READ", FALSE)
    /\ logTransaction("READ", f.path, FALSE)
    /\ UNCHANGED <<now, config, streams, shown, nodes, locks, calls, backend, stores, removals, th, kernel, hist>>

\* syscall.Pwrite(fd, data, off) with len(data) = len: the size afterwards.
Pwrite(ino, len, off) ==
    IF off + len > size[ino] THEN off + len ELSE size[ino]

\* A Write that also patches the size in the attribute cache's entry of the
\* file.
Write_UpdatesCachedSize(f, len, off) ==
    /\ f \in fds
    /\ size' = [size EXCEPT ![f.ino] = Pwrite(f.ino, len, off)]
    /\ attrCache' =
         IF f.path \in DOMAIN attrCache
         THEN [attrCache EXCEPT ![f.path].attr.size = Pwrite(f.ino, len, off)]
         ELSE attrCache
    /\ resp' = [NoResp EXCEPT !.op = "WRITE", !.key = f.path, !.fd = f.fd,
                  !.off = off, !.len = len, !.n = len]
    /\ metrics' = Metered("WRITE", FALSE)
    /\ logTransaction("WRITE", f.path, FALSE)
    /\ UNCHANGED <<now, config, streams, shown, nodes, locks, calls, names, fds, lookupCache, dirCache,
                   removals, th, kernel, hist>>

\* loopbackFile.Write
Write(f, len, off) ==
    /\ f \in fds
    /\ size' = [size EXCEPT ![f.ino] = Pwrite(f.ino, len, off)]
    /\ resp' = [NoResp EXCEPT !.op = "WRITE", !.key = f.path, !.fd = f.fd,
                  !.off = off, !.len = len, !.n = len]
    /\ metrics' = Metered("WRITE", FALSE)
    /\ logTransaction("WRITE", f.path, FALSE)
    /\ UNCHANGED <<now, config, streams, shown, nodes, locks, calls, names, fds, stores, removals, th, kernel, hist>>

\* loopbackFile.Release
Release(f) ==
    /\ f \in fds
    /\ fds' = fds \ {f}
    /\ resp' = [NoResp EXCEPT !.op = "RELEASE", !.key = f.path, !.fd = f.fd]
    /\ UNCHANGED <<now, config, streams, shown, nodes, locks, telemetry, logging, names, size, stores, removals, th, kernel, hist>>

\* ------------------------------------------------------------------ Next
\* The requests the transport layer issues under each workload: one kind of
\* metadata request on one key, and the passthrough requests that change what
\* the backend holds for that key.
OnFile  == workload \in {"getattr", "lookup"}
OnDir   == workload = "readdir"
OnLocks == workload = "locks"
OnMetrics == Counting /\ Counted < MaxCalls
OnLogs == Logging /\ event.n < MaxEvents
OnKernel == workload = "kernel"
OnNodes == Tracking
OnReap == Reaping

\* ------------------------------------------------------- transport layer
\* The children of the root the transport layer can know: rootNode has a
\* Getattr and a Lookup but no Readdir, so a listing of the root is made by
\* the transport layer from the nodes it holds.  No store is consulted, no
\* backend read made, nothing Put, no event counted or logged.
rootNode_Readdir ==
    /\ \E known \in {<<>>, <<[name |-> "d", mode |-> ModeOf(DirPath),
                              ino |-> names[DirPath]]>>} :
         resp' = [NoResp EXCEPT !.op = "READDIR", !.key = RootPath,
                    !.list = [NilListing EXCEPT !.items = known]]
    /\ UNCHANGED <<now, config, streams, shown, nodes, locks, telemetry, logging, backend, stores,
                   removals, th, kernel, hist>>

\* The transport layer drops its last reference to node n: the node is
\* retired.  Nothing in the daemon hears of it.
Forget(n) ==
    /\ Tracking
    /\ n \in refs
    /\ refs' = refs \ {n}
    /\ retired' = retired \cup {n}
    /\ resp' = NoResp
    /\ UNCHANGED <<now, config, streams, shown, gens, locks, telemetry, logging, backend, stores,
                   removals, th, kernel, hist>>
OnData  == workload = "data"

Next ==
    \/ Tick
    \/ \E p \in Paths : AttrCache_RemoveTask(p)
    \/ \E p \in Paths : LookupCache_RemoveTask(p)
    \/ \E p \in Paths : DirCache_RemoveTask(p)
    \/ \E t \in Threads : workload = "getattr" /\ Getattr_Start(t, "/d/a")
    \/ OnData /\ Getattr_Start(1, "/d/a")
    \/ \E t \in Threads : Getattr_Lstat(t)
    \/ \E t \in Threads : Getattr_Finish(t)
    \/ \E t \in Threads : workload = "lookup" /\ Lookup_Start(t, DirPath, "a")
    \/ \E t \in Threads : Lookup_Lstat(t)
    \/ \E t \in Threads : Lookup_Finish(t)
    \/ OnDir /\ Readdir_Start(1, DirPath)
    \/ \E t \in Threads : Readdir_Read(t)
    \/ \E t \in Threads : Readdir_LstatEntry(t)
    \/ \E t \in Threads : Readdir_Finish(t)
    \/ \E n \in Names : ((OnDir /\ n = "b") \/ (OnFile /\ n = "a")) /\ Create(DirPath, n)
    \/ \E n \in Names : (OnDir \/ ((OnFile \/ OnData) /\ n = "a")) /\ Unlink(DirPath, n)
    \/ OnDir /\ Rename(DirPath, "a", DirPath, "b")
    \/ OnData /\ Mkdir(RootPath, "d")
    \/ OnData /\ Rmdir(RootPath, "d")
    \/ OnData /\ Open("/d/a")
    \/ \E f \in fds, len \in 1..MaxSize, off \in 0..MaxSize : OnData /\ Read(f, len, off)
    \/ \E f \in fds, len \in 1..MaxSize : OnData /\ Write(f, len, MaxSize - len)
    \/ \E f \in fds : Release(f)
    \/ OnMetrics /\ Getattr_Start(1, "/d/a")
    \/ OnMetrics /\ Lookup_Start(1, DirPath, "a")
    \/ OnMetrics /\ Readdir_Start(2, DirPath)
    \/ OnMetrics /\ Unlink(DirPath, "a")
    \/ OnLogs /\ Getattr_Start(1, "/d/a")
    \/ OnLogs /\ Unlink(DirPath, "a")
    \/ RotatingLogger_compressFile
    \/ RotatingLogger_cleanupOldFiles
    \/ OnKernel /\ Stat(1, "/d/a")
    \/ OnKernel /\ Resolve(2, DirPath, "a")
    \/ \E t \in Threads : OnReap /\ Lookup_Start(t, DirPath, "a")
    \/ OnNodes /\ Lookup_Start(1, DirPath, "a")
    \/ OnNodes /\ Unlink(DirPath, "a")
    \/ OnNodes /\ (Exists("/d/a") \/ gens[NewIno] < MaxGen) /\ Create(DirPath, "a")
    \/ \E n \in refs : Forget(n)
    \/ OnLogs /\ rootNode_Readdir
    \/ \E t \in Threads, k \in LockKeys : OnLocks /\ DirCache_Get_Call(t, k)
    \/ \E t \in Threads : DirCache_Get_RLock(t)
    \/ \E t \in Threads : DirCache_Get_Return(t)
    \/ \E t \in Threads, k \in LockKeys : OnLocks /\ DirCache_Put_Call(t, k)
    \/ \E t \in Threads : DirCache_Put_Lock(t)
    \/ \E t \in Threads : DirCache_Put_Return(t)

Spec == Init /\ [][Next]_vars

\* ------------------------------------------------- the DirCache's mutex
\* The calls into the DirCache and the Readdir handler at the grain of the
\* mutex, on their own: requests arrive until the clock reaches MaxTime, so
\* every run carries a finite set of calls.
LockInit == Init /\ workload = "locks"

Arriving == now < MaxTime

LockNext ==
    \/ Tick
    \/ \E k \in LockKeys : Arriving /\ DirCache_Get_Call(2, k)
    \/ \E k \in LockKeys : Arriving /\ DirCache_Put_Call(2, k)
    \/ Arriving /\ Readdir_Call(1, DirPath)
    \/ \E t \in Threads : DirCache_Get_RLock(t)
    \/ \E t \in Threads : DirCache_Get_Return(t)
    \/ \E t \in Threads : Readdir_Log(t)
    \/ \E t \in Threads : Readdir_Open(t)
    \/ \E t \in Threads : DirCache_Put_Lock(t)
    \/ \E t \in Threads : DirCache_Put_Return(t)
    \/ \E p \in Paths : DirCache_RemoveTask(p)

\* The Go scheduler runs every goroutine that can run, and the clock goes on.
LockFair ==
    /\ WF_vars(Tick)
    /\ \A t \in Threads :
         /\ WF_vars(DirCache_Get_RLock(t))
         /\ WF_vars(DirCache_Get_Return(t))
         /\ WF_vars(Readdir_Log(t))
         /\ WF_vars(Readdir_Open(t))
         /\ WF_vars(DirCache_Put_Lock(t))
         /\ WF_vars(DirCache_Put_Return(t))
    /\ \A p \in Paths : WF_vars(DirCache_RemoveTask(p))

LockSpec == LockInit /\ [][LockNext]_vars /\ LockFair

\* ------------------------------------------------------- CachedDirStream
\* s.index < len(s.entries)
HasNext(s) == s.index < Len(s.entries)

\* CachedDirStream.HasNext on stream i.
CachedDirStream_HasNext(i) ==
    /\ i \in DOMAIN streams
    /\ streams' = [streams EXCEPT ![i].last =
                      IF HasNext(streams[i]) THEN "TRUE" ELSE "FALSE"]
    /\ UNCHANGED <<now, config, shown, nodes, locks, telemetry, logging, backend, stores,
                   removals, th, resp, kernel, hist>>

\* A Next that returns the entry at the index and leaves the index alone.
CachedDirStream_Next_NoAdvance(i) ==
    /\ i \in DOMAIN streams
    /\ LET s == streams[i]
       IN  streams' = [streams EXCEPT ![i] =
             IF ~HasNext(s) THEN [s EXCEPT !.last = "ENOENT"]
             ELSE [s EXCEPT !.out = Append(@, s.entries[s.index + 1]),
                            !.last = "OK"]]
    /\ UNCHANGED <<now, config, shown, nodes, locks, telemetry, logging, backend, stores,
                   removals, th, resp, kernel, hist>>

\* CachedDirStream.Next on stream i: ENOENT at the end, else the entry at
\* the index (Go counts from 0, a sequence from 1) and index++.
CachedDirStream_Next(i) ==
    /\ i \in DOMAIN streams
    /\ LET s == streams[i]
       IN  streams' = [streams EXCEPT ![i] =
             IF ~HasNext(s) THEN [s EXCEPT !.last = "ENOENT"]
             ELSE [s EXCEPT !.out = Append(@, s.entries[s.index + 1]),
                            !.index = @ + 1, !.last = "OK"]]
    /\ UNCHANGED <<now, config, shown, nodes, locks, telemetry, logging, backend, stores,
                   removals, th, resp, kernel, hist>>

\* CachedDirStream.Close on stream i: an empty body.
CachedDirStream_Close(i) ==
    /\ i \in DOMAIN streams
    /\ streams' = [streams EXCEPT ![i].last = "CLOSED"]
    /\ UNCHANGED <<now, config, shown, nodes, locks, telemetry, logging, backend, stores,
                   removals, th, resp, kernel, hist>>

\* Readdir requests on /d, the directory changing under them, and the
\* transport layer reading the streams they return.
StreamInit == Init /\ workload = "streams"

StreamNext ==
    \/ Tick
    \/ Len(streams) < MaxStreams /\ Readdir_Start(1, DirPath)
    \/ Readdir_Read(1)
    \/ Readdir_LstatEntry(1)
    \/ Readdir_Finish(1)
    \/ DirCache_RemoveTask(DirPath)
    \/ Create(DirPath, "b")
    \/ \E f \in fds : Release(f)
    \/ \E i \in 1..MaxStreams : CachedDirStream_HasNext(i)
    \/ \E i \in 1..MaxStreams : CachedDirStream_Next(i)
    \/ \E i \in 1..MaxStreams : CachedDirStream_Close(i)

StreamSpec == StreamInit /\ [][StreamNext]_vars

\* ------------------------------------- the kernel-cache-only dispatcher
\* cmd/forkspoon/main.go keeps no store: the kernel caches what the handlers
\* return for cacheTTL, and every call that reaches a handler goes to the
\* backend.

\* logTransaction of cmd/forkspoon/main.go: the status column of the line.
Main_cacheStatus(op, cached) ==
    IF cached THEN "CACHE_HIT"
    ELSE IF op = "GETATTR" \/ op = "LOOKUP" \/ op = "READDIR" THEN "CACHE_MISS"
    ELSE "PASSTHROUGH"

\* logTransaction(op, path, cached) of cmd/forkspoon/main.go: nothing without
\* a transaction log, else one line to it; the result of the write is dropped.
Main_logTransaction(op, path, cached) ==
    /\ UNCHANGED <<cacheLog, logFiles>>
    /\ IF ~transLog.set
       THEN /\ transLog' = transLog
            /\ event' = [n |-> event.n + 1, op |-> op, status |-> "NONE",
                         path |-> path, cached |-> cached, cacheOk |-> TRUE,
                         transOk |-> FALSE]
       ELSE \E okT \in BOOLEAN :
              /\ TransLog_Write([op |-> op,
                                 status |-> Main_cacheStatus(op, cached),
                                 path |-> path], okT)
              /\ event' = [n |-> event.n + 1, op |-> op,
                           status |-> Main_cacheStatus(op, cached),
                           path |-> path, cached |-> cached,
                           cacheOk |-> TRUE, transOk |-> okT]

\* loopbackNode.Getattr counting the call as a hit.
loopbackNode_Getattr_CountsHit(p) ==
    /\ metrics' = updateMetrics("GETATTR", TRUE)
    /\ calls' = [calls EXCEPT !["GETATTR"].misses = @ + 1]
    /\ Main_logTransaction("GETATTR", p, FALSE)
    /\ \E r \in LstatOutcomes(p) :
         resp' = IF r.err # "OK"
                 THEN [NoResp EXCEPT !.op = "GETATTR", !.key = p,
                                     !.errno = r.err]
                 ELSE [NoResp EXCEPT !.op = "GETATTR", !.key = p,
                         !.attr = SetTimeout(AttrFromStat(NilAttr, r.st),
                                             cacheTTL)]
    /\ UNCHANGED <<now, config, streams, shown, nodes, locks, backend, stores,
                   removals, th, kernel, hist>>

\* loopbackNode.Getattr / rootNode.Getattr of cmd/forkspoon/main.go
loopbackNode_Getattr(p) ==
    /\ metrics' = updateMetrics("GETATTR", FALSE)
    /\ calls' = [calls EXCEPT !["GETATTR"].misses = @ + 1]
    /\ Main_logTransaction("GETATTR", p, FALSE)
    /\ \E r \in LstatOutcomes(p) :
         resp' = IF r.err # "OK"
                 THEN [NoResp EXCEPT !.op = "GETATTR", !.key = p,
                                     !.errno = r.err]
                 ELSE [NoResp EXCEPT !.op = "GETATTR", !.key = p,
                         !.attr = SetTimeout(AttrFromStat(NilAttr, r.st),
                                             cacheTTL)]
    /\ UNCHANGED <<now, config, streams, shown, nodes, locks, backend, stores,
                   removals, th, kernel, hist>>

\* loopbackNode.Lookup / rootNode.Lookup of cmd/forkspoon/main.go
loopbackNode_Lookup(parent, name) ==
    LET p == Join(parent, name)
    IN  /\ metrics' = updateMetrics("LOOKUP", FALSE)
        /\ calls' = [calls EXCEPT !["LOOKUP"].misses = @ + 1]
        /\ Main_logTransaction("LOOKUP", p, FALSE)
        /\ \E r \in LstatOutcomes(p) :
             resp' = IF r.err # "OK"
                     THEN [NoResp EXCEPT !.op = "LOOKUP", !.key = p,
                                         !.errno = r.err]
                     ELSE [NoResp EXCEPT !.op = "LOOKUP", !.key = p,
                             !.entry = SetAttrTimeout(SetEntryTimeout(
                                         EntryFromStat(NilEntry, r.st),
                                         cacheTTL), cacheTTL),
                             !.inode = NewInode(r.st)]
        /\ UNCHANGED <<now, config, streams, shown, nodes, locks, backend,
                       stores, removals, th, kernel, hist>>

\* loopbackNode.Readdir of cmd/forkspoon/main.go: the stream is opened on the
\* backend directory at every call.
loopbackNode_Readdir(dirPath) ==
    /\ metrics' = updateMetrics("READDIR", FALSE)
    /\ calls' = [calls EXCEPT !["READDIR"].misses = @ + 1]
    /\ Main_logTransaction("READDIR", dirPath, FALSE)
    /\ \E e \in {IF Exists(dirPath) THEN "OK" ELSE "ENOENT", "EIO"} :
         resp' = IF e # "OK"
                 THEN [NoResp EXCEPT !.op = "READDIR", !.key = dirPath,
                                     !.errno = e]
                 ELSE [NoResp EXCEPT !.op = "READDIR", !.key = dirPath,
                         !.list = [items |-> DirItemsOf(names, dirPath),
                                   readAt |-> now]]
    /\ UNCHANGED <<now, config, streams, shown, nodes, locks, backend, stores,
                   removals, th, kernel, hist>>

\* loopbackNode.Unlink of cmd/forkspoon/main.go
loopbackNode_Unlink(parent, name) ==
    LET p == Join(parent, name)
    IN  /\ metrics' = updateMetrics("UNLINK", FALSE)
        /\ calls' = calls
        /\ Main_logTransaction("UNLINK", p, FALSE)
        /\ IF ~Exists(p)
           THEN /\ resp' = [NoResp EXCEPT !.op = "UNLINK", !.key = p,
                              !.errno = "ENOENT"]
                /\ names' = names
           ELSE /\ names' = [names EXCEPT ![p] = 0]
                /\ resp' = [NoResp EXCEPT !.op = "UNLINK", !.key = p]
        /\ UNCHANGED <<now, config, streams, shown, nodes, locks, size, fds,
                       stores, removals, th, kernel, hist>>

MainInit == Init /\ workload = "kernelonly"

MainNext ==
    \/ Tick
    \/ \E p \in {DirPath, "/d/a"} : Counted < MaxCalls /\ loopbackNode_Getattr(p)
    \/ Counted < MaxCalls /\ loopbackNode_Lookup(DirPath, "a")
    \/ Counted < MaxCalls /\ loopbackNode_Readdir(DirPath)
    \/ Counted < MaxCalls /\ loopbackNode_Unlink(DirPath, "a")

MainSpec == MainInit /\ [][MainNext]_vars

\* ------------------------------------------- the RotatingLogger's mutex
\* The calls into the RotatingLogger at the grain of l.mu: Write and Close
\* from the handlers' goroutines, and the size check of the rotationChecker
\* goroutine at each tick of its ticker.  Calls arrive until the log has
\* been renamed MaxRotations times.
\* The goroutine the rotationChecker runs as.
Checker == NumThreads

\* A call on the logger starts: the caller goes to l.mu.Lock().
LoggerCall(t, op) ==
    /\ th[t].pc = "idle"
    /\ th' = [th EXCEPT ![t] = [Idle EXCEPT !.pc = "logwait", !.op = op]]
    /\ resp' = NoResp
    /\ UNCHANGED <<now, config, streams, shown, nodes, locks, telemetry,
                   logging, backend, stores, removals, kernel, hist>>

\* RotatingLogger.Write is called.
RotatingLogger_Write_Call(t) == LoggerCall(t, "LOGWRITE")

\* The ticker of rotationChecker fires.
rotationChecker_Tick == LoggerCall(Checker, "LOGCHECK")

\* RotatingLogger.Close is called.
RotatingLogger_Close_Call(t) ==
    /\ ~cacheLog.closed
    /\ LoggerCall(t, "LOGCLOSE")

\* The first statement under the mutex, by operation.
Locked(op) ==
    CASE op = "LOGWRITE" -> "logwrite"
      [] op = "LOGCHECK" -> "logstat"
      [] OTHER           -> "logclose"

\* l.mu.Lock() returning although another goroutine holds the mutex.
RotatingLogger_Lock_NoWait(t) ==
    /\ th[t].pc = "logwait"
    /\ cacheLog' = [cacheLog EXCEPT !.mu = t]
    /\ th' = [th EXCEPT ![t].pc = Locked(th[t].op)]
    /\ UNCHANGED <<now, config, streams, shown, nodes, locks, telemetry,
                   transLog, logFiles, event, backend, stores, removals,
                   resp, kernel, hist>>

\* l.mu.Lock() returns: nobody holds the mutex.
RotatingLogger_Lock(t) ==
    /\ th[t].pc = "logwait"
    /\ cacheLog.mu = 0
    /\ cacheLog' = [cacheLog EXCEPT !.mu = t]
    /\ th' = [th EXCEPT ![t].pc = Locked(th[t].op)]
    /\ UNCHANGED <<now, config, streams, shown, nodes, locks, telemetry,
                   transLog, logFiles, event, backend, stores, removals,
                   resp, kernel, hist>>

\* RotatingLogger.Write: l.file.WriteString(msg), the size counter, and the
\* comparison with maxSize.  A write to a closed file fails.
RotatingLogger_Write_String(t) ==
    /\ th[t].pc = "logwrite"
    /\ \E ok \in IF cacheLog.open THEN BOOLEAN ELSE {FALSE} :
         IF ~ok
         THEN /\ cacheLog' = cacheLog
              /\ th' = [th EXCEPT ![t].pc = "logret", ![t].err = "EIO"]
         ELSE /\ cacheLog' = [cacheLog EXCEPT !.size = @ + 1]
              /\ th' = [th EXCEPT ![t].pc =
                          IF cacheLog.size + 1 >= MaxLogSize THEN "rotate"
                          ELSE "logret"]
    /\ UNCHANGED <<now, config, streams, shown, nodes, locks, telemetry,
                   transLog, logFiles, event, backend, stores, removals,
                   resp, kernel, hist>>

\* rotationChecker: l.file.Stat(), the size counter set from the file, and
\* the comparison with maxSize.  The file is at least as large as the counter
\* says: the bytes of a write that failed part way are in the file but not in
\* the counter.
rotationChecker_Stat(t) ==
    /\ th[t].pc = "logstat"
    /\ \/ /\ cacheLog' = cacheLog
          /\ th' = [th EXCEPT ![t].pc = "logret", ![t].err = "EIO"]
       \/ /\ cacheLog.open
          /\ \E sz \in cacheLog.size..MaxLogSize :
               /\ cacheLog' = [cacheLog EXCEPT !.size = sz]
               /\ th' = [th EXCEPT ![t].pc = IF sz >= MaxLogSize THEN "rotate"
                                             ELSE "logret"]
    /\ UNCHANGED <<now, config, streams, shown, nodes, locks, telemetry,
                   transLog, logFiles, event, backend, stores, removals,
                   resp, kernel, hist>>

\* RotatingLogger.rotate: l.file.Close()
RotatingLogger_rotate_Close(t) ==
    /\ th[t].pc = "rotate"
    /\ cacheLog' = [cacheLog EXCEPT !.open = FALSE, !.rotating = @ + 1]
    /\ th' = [th EXCEPT ![t].pc = "rename"]
    /\ UNCHANGED <<now, config, streams, shown, nodes, locks, telemetry,
                   transLog, logFiles, event, backend, stores, removals,
                   resp, kernel, hist>>

\* RotatingLogger.rotate: os.Rename(l.path, newName) and, when it worked, the
\* two goroutines.
RotatingLogger_rotate_Rename(t) ==
    /\ th[t].pc = "rename"
    /\ \E ok \in BOOLEAN :
         IF ~ok
         THEN /\ cacheLog' = [cacheLog EXCEPT !.rotating = @ - 1]
              /\ logFiles' = logFiles
              /\ th' = [th EXCEPT ![t].pc = "logret", ![t].err = "EROTATE"]
         ELSE /\ cacheLog' = [cacheLog EXCEPT !.rotated = @ + 1]
              /\ logFiles' = [logFiles EXCEPT !.raw = @ + 1,
                                !.compress = @ + 1, !.cleanup = @ + 1]
              /\ th' = [th EXCEPT ![t].pc = "reopen"]
    /\ UNCHANGED <<now, config, streams, shown, nodes, locks, telemetry,
                   transLog, event, backend, stores, removals, resp, kernel,
                   hist>>

\* RotatingLogger.rotate: os.OpenFile(l.path, ...), l.file and l.currentSize
RotatingLogger_rotate_Open(t) ==
    /\ th[t].pc = "reopen"
    /\ \E ok \in BOOLEAN :
         IF ~ok
         THEN /\ cacheLog' = [cacheLog EXCEPT !.rotating = @ - 1]
              /\ th' = [th EXCEPT ![t].pc = "logret", ![t].err = "EROTATE"]
         ELSE /\ cacheLog' = [cacheLog EXCEPT !.open = TRUE, !.size = 0,
                                              !.rotating = @ - 1]
              /\ th' = [th EXCEPT ![t].pc = "logret", ![t].idx = 1]
    /\ UNCHANGED <<now, config, streams, shown, nodes, locks, telemetry,
                   transLog, logFiles, event, backend, stores, removals,
                   resp, kernel, hist>>

\* RotatingLogger.Close: l.file.Close()
RotatingLogger_Close_File(t) ==
    /\ th[t].pc = "logclose"
    /\ cacheLog' = [cacheLog EXCEPT !.open = FALSE, !.closed = TRUE]
    /\ th' = [th EXCEPT ![t].pc = "logret",
                        ![t].err = IF cacheLog.open THEN "OK" ELSE "EBADF"]
    /\ UNCHANGED <<now, config, streams, shown, nodes, locks, telemetry,
                   transLog, logFiles, event, backend, stores, removals,
                   resp, kernel, hist>>

\* l.mu.Unlock() and the return; the field n of the response says whether
\* the call rotated the log.
RotatingLogger_Unlock(t) ==
    /\ th[t].pc = "logret"
    /\ cacheLog' = [cacheLog EXCEPT !.mu = 0]
    /\ resp' = [NoResp EXCEPT !.op = th[t].op, !.errno = th[t].err,
                              !.n = th[t].idx]
    /\ th' = [th EXCEPT ![t] = Idle]
    /\ UNCHANGED <<now, config, streams, shown, nodes, locks, telemetry,
                   transLog, logFiles, event, backend, stores, removals,
                   kernel, hist>>

LoggerInit == Init /\ workload = "logger"

LoggerNext ==
    \/ Tick
    \/ \E t \in Threads : cacheLog.rotated < MaxRotations /\ RotatingLogger_Write_Call(t)
    \/ cacheLog.rotated < MaxRotations /\ rotationChecker_Tick
    \/ cacheLog.rotated < MaxRotations /\ RotatingLogger_Close_Call(1)
    \/ \E t \in Threads : RotatingLogger_Lock(t)
    \/ \E t \in Threads : RotatingLogger_Write_String(t)
    \/ \E t \in Threads : rotationChecker_Stat(t)
    \/ \E t \in Threads : RotatingLogger_rotate_Close(t)
    \/ \E t \in Threads : RotatingLogger_rotate_Rename(t)
    \/ \E t \in Threads : RotatingLogger_rotate_Open(t)
    \/ \E t \in Threads : RotatingLogger_Close_File(t)
    \/ \E t \in Threads : RotatingLogger_Unlock(t)
    \/ RotatingLogger_compressFile
    \/ RotatingLogger_cleanupOldFiles

LoggerSpec == LoggerInit /\ [][LoggerNext]_vars

\* ------------------------------------------------ logTransaction alone
\* The operations the handlers name in their logTransaction calls.
LoggedOps == {"GETATTR", "LOOKUP", "READDIR", "OPEN", "CREATE", "READ",
              "WRITE", "UNLINK", "RENAME", "MKDIR", "RMDIR"}

\* One call logTransaction(op, path, cached).
LogEvent(op, path, cached) ==
    /\ logTransaction(op, path, cached)
    /\ resp' = NoResp
    /\ UNCHANGED <<now, config, streams, shown, nodes, locks, telemetry,
                   backend, stores, removals, th, kernel, hist>>

EventInit == Init /\ workload = "logs"

EventNext ==
    \/ Tick
    \/ \E op \in LoggedOps, cached \in BOOLEAN :
         OnLogs /\ LogEvent(op, "/d/a", cached)
    \/ RotatingLogger_compressFile
    \/ RotatingLogger_cleanupOldFiles

EventSpec == EventInit /\ [][EventNext]_vars

\* ------------------------------------------------------------ properties
\* The value a response of a metadata operation carries, shaped as the
\* operation's store keeps it.
Returned(r) ==
    IF r.op = "GETATTR" THEN r.attr
    ELSE IF r.op = "LOOKUP" THEN [inode |-> r.inode, entry |-> r.entry]
    ELSE r.list

\* The instant of the backend read a response's value comes from.
ReadAtOf(r) ==
    IF r.op = "GETATTR" THEN r.attr.readAt
    ELSE IF r.op = "LOOKUP" THEN r.entry.readAt
    ELSE r.list.readAt

MetadataOps == {"GETATTR", "LOOKUP", "READDIR"}
MutationOps == {"CREATE", "MKDIR", "UNLINK", "RMDIR", "RENAME"}
DataOps     == {"OPEN", "READ", "WRITE", "RELEASE"}

\* The names of a listing.
NamesOf(items) == {items[i].name : i \in 1..Len(items)}

\* C1: in each of the three stores, Get never returns a hit for an entry whose
\* expiry instant has been reached: with the entry put at t with TTL ttl, a Get
\* at any t' >= t + ttl is a miss, removed from the map or not.
C1_ExpiredNeverHit ==
    /\ \A k \in DOMAIN attrCache :
         now >= attrCache[k].expiry => ~AttrCache_Get(k).hit
    /\ \A k \in DOMAIN lookupCache :
         now >= lookupCache[k].expiry => ~LookupCache_Get(k).hit
    /\ \A k \in DOMAIN dirCache :
         now >= dirCache[k].expiry => ~DirCache_Get(k).hit

\* C2: once Put(k, v, ttl) has completed at t and no caller has issued a later
\* Put or Remove for k, every Get(k) at t' with t <= t' < t + ttl returns v, in
\* every interleaving and whatever the store held for k before.
C2_PutThenGetReturnsIt ==
    \A k \in Paths :
      /\ (lastPut.attr[k].set /\ now < lastPut.attr[k].expiry)
           => /\ AttrCache_Get(k).hit
              /\ AttrCache_Get(k).val = lastPut.attr[k].val
      /\ (lastPut.lookup[k].set /\ now < lastPut.lookup[k].expiry)
           => /\ LookupCache_Get(k).hit
              /\ LookupCache_Get(k).inode = lastPut.lookup[k].val.inode
              /\ LookupCache_Get(k).entry = lastPut.lookup[k].val.entry
      /\ (lastPut.dir[k].set /\ now < lastPut.dir[k].expiry)
           => /\ DirCache_Get(k).hit
              /\ DirCache_Get(k).entries = lastPut.dir[k].val

\* C3: after a Getattr, Lookup or Readdir miss whose backend call succeeded,
\* the next same operation for the path before the entry's expiry is a hit: it
\* returns the record the miss stored and goes to no backend call.
C3_NextSameOpHits ==
    /\ \A t \in Threads : ~th[t].due.set
    /\ resp.due.set => /\ resp.hit
                       /\ Returned(resp) = resp.due.val

C5_AtMostOneTTLStale ==
    /\ (resp.hit /\ resp.op \in MetadataOps) => now - ReadAtOf(resp) <= cacheTTL
    /\ \A p \in Paths :
         /\ (kattr[p].set /\ now < kattr[p].until)
              => now - kattr[p].val.readAt <= cacheTTL
         /\ (kentry[p].set /\ now < kentry[p].until)
              => now - kentry[p].val.readAt <= cacheTTL

C7_MutationsLeaveStores ==
    [][/\ (names' # names \/ (resp' # resp /\ resp'.op \in MutationOps))
            => UNCHANGED <<stores, removals>>
       /\ (resp' # resp /\ resp'.hit /\ resp'.op = "GETATTR")
            => /\ resp'.key \in DOMAIN attrCache
               /\ resp'.attr = attrCache[resp'.key].attr
       /\ (resp' # resp /\ resp'.hit /\ resp'.op = "LOOKUP")
            => /\ resp'.key \in DOMAIN lookupCache
               /\ resp'.entry = lookupCache[resp'.key].entry
               /\ resp'.inode = lookupCache[resp'.key].inode
       /\ (resp' # resp /\ resp'.hit /\ resp'.op = "READDIR")
            => /\ resp'.key \in DOMAIN dirCache
               /\ resp'.list = dirCache[resp'.key].entries]_vars

\* C7 witness: a Readdir hit returns a listing without "b" although the
\* backend directory holds "b" by now.
C7_Witness ==
    /\ resp.op = "READDIR"
    /\ resp.hit
    /\ Exists("/d/b")
    /\ "a" \in NamesOf(resp.list.items)
    /\ "b" \notin NamesOf(resp.list.items)

\* C8: Open, Read, Write and Release neither read nor write the three stores:
\* the result is the backend's answer to the call with the request's offset
\* and byte count as they came.
C8_DataPathBypassesStores ==
    [][(resp' # resp /\ resp'.op \in DataOps) =>
         /\ UNCHANGED <<stores, removals>>
         /\ resp'.op = "OPEN" =>
              /\ resp'.errno = OpenErrno(resp'.key)
              /\ resp'.errno = "OK" =>
                   [fd |-> resp'.fd, ino |-> names[resp'.key],
                    path |-> resp'.key] \in fds' \ fds
         /\ resp'.op \in {"READ", "WRITE", "RELEASE"} =>
              \E f \in fds :
                /\ f.fd = resp'.fd
                /\ resp'.op = "READ" =>
                     /\ resp'.n = IF resp'.off >= size[f.ino] THEN 0
                                  ELSE IF size[f.ino] - resp'.off < resp'.len
                                       THEN size[f.ino] - resp'.off
                                       ELSE resp'.len
                     /\ UNCHANGED backend
                /\ resp'.op = "WRITE" =>
                     /\ resp'.n = resp'.len
                     /\ size'[f.ino] >= resp'.off + resp'.len
                     /\ size'[f.ino] >= size[f.ino]
                /\ resp'.op = "RELEASE" => fds' = fds \ {f}]_vars

\* C8 witness: a Read returns a byte of a file whose cached attributes, still
\* valid in the attribute store, say its size is 0.
C8_Witness ==
    /\ resp.op = "READ"
    /\ resp.n = 1
    /\ AttrCache_Get(resp.key).hit
    /\ AttrCache_Get(resp.key).val.size = 0

\* C9: the entries a Readdir miss caches are the result of one backend
\* directory read: there is a moment of the call at which the backend held
\* every cached entry (name, mode, inode) together; the listing never joins
\* results taken at different moments.
C9_ListingFromOneMoment ==
    (resp.op = "READDIR" /\ ~resp.hit /\ resp.errno = "OK")
      => \E s \in resp.seen :
           \A i \in 1..Len(resp.list.items) :
             \E j \in 1..Len(s) : s[j] = resp.list.items[i]

\* C10: a Readdir miss returns and caches an entry for every name the backend
\* directory held at the time of the read; none of them is left out.
C10_EveryNameListed ==
    (resp.op = "READDIR" /\ ~resp.hit /\ resp.errno = "OK")
      => NamesOf(resp.snap) \subseteq NamesOf(resp.list.items)


\* A backend stat or directory read is in flight for invocation t: it has
\* missed and waits for the answer of its backend call.
InFlight(t) == th[t].pc \in {"lstat", "readdir", "lstatEntry"}

\* C11: at any moment at most one backend stat or directory read is in flight
\* for a cache key: concurrent misses on a key do not each go to the backend.
C11_OneFetchPerKey ==
    \A t1, t2 \in Threads :
      (t1 # t2 /\ InFlight(t1) /\ InFlight(t2))
        => (th[t1].op # th[t2].op \/ th[t1].key # th[t2].key)

\* C12: a successful Lookup miss stores, in the same step, a lookup-cache
\* entry and an attribute-cache entry for the child path, so that a Getattr on
\* the child right afterwards is a hit.
C12_LookupFillsAttrCache ==
    (resp.op = "LOOKUP" /\ ~resp.hit /\ resp.errno = "OK")
      => /\ LookupCache_Get(resp.key).hit
         /\ AttrCache_Get(resp.key).hit

\* C13: with a cache TTL of zero (or less) nothing is served from the stores:
\* no Get returns a hit for any key at any time, the instant of the Put
\* included, and no handler answers with a hit.
C13_ZeroTTLNeverHits ==
    cacheTTL <= 0 =>
      /\ ~resp.hit
      /\ \A k \in Paths : /\ ~AttrCache_Get(k).hit
                          /\ ~LookupCache_Get(k).hit
                          /\ ~DirCache_Get(k).hit


\* C14: for every key, once a Put(k, v2) has completed after an earlier
\* Put(k, v1), no Get(k) ordered after it returns v1: a Get that hits returns
\* the value of the latest completed Put for the key, in every interleaving.
C14_GetReturnsLatestPut ==
    \A k \in Paths :
      /\ AttrCache_Get(k).hit
           => /\ lastPut.attr[k].set
              /\ AttrCache_Get(k).val = lastPut.attr[k].val
      /\ LookupCache_Get(k).hit
           => /\ lastPut.lookup[k].set
              /\ LookupCache_Get(k).inode = lastPut.lookup[k].val.inode
              /\ LookupCache_Get(k).entry = lastPut.lookup[k].val.entry
      /\ DirCache_Get(k).hit
           => /\ lastPut.dir[k].set
              /\ DirCache_Get(k).entries = lastPut.dir[k].val

\* C14 witness: an entry of "/d/a" was seen expired (its removal is still
\* pending), a second Put has replaced it, and a Get returns the second value.
C14_Witness ==
    /\ attrRm["/d/a"] > 0
    /\ AttrCache_Get("/d/a").hit
    /\ AttrCache_Get("/d/a").val = lastPut.attr["/d/a"].val
    /\ AttrCache_Get("/d/a").val.readAt > cacheTTL


AttrSeen(k)   == [hit |-> AttrCache_Get(k).hit, val |-> AttrCache_Get(k).val]
LookupSeen(k) == [hit |-> LookupCache_Get(k).hit,
                  inode |-> LookupCache_Get(k).inode,
                  entry |-> LookupCache_Get(k).entry]
DirSeen(k)    == [hit |-> DirCache_Get(k).hit,
                  entries |-> DirCache_Get(k).entries]

\* C16: a store where key k is absent and one where k is present but expired
\* are indistinguishable to callers under every later sequence of Get and Put
\* and every scheduling. The two differ only in the removal a Get of the
\* expired entry leaves pending, so the removal, whenever it runs, changes no
\* result a Get returns.
C16_AbsentOrExpiredAlike ==
    [][\A k \in Paths :
         /\ attrRm'[k] < attrRm[k] => AttrSeen(k)' = AttrSeen(k)
         /\ lookupRm'[k] < lookupRm[k] => LookupSeen(k)' = LookupSeen(k)
         /\ dirRm'[k] < dirRm[k] => DirSeen(k)' = DirSeen(k)]_vars

\* C17: a Put in progress for one key never blocks a Get or a Put for another
\* key: while an invocation is inside DirCache.Put for a key, an invocation
\* that called Get or Put for a different key can take the store's mutex.
C17_PutBlocksNoOtherKey ==
    \A t1, t2 \in Threads :
      (/\ th[t1].pc = "locked" /\ th[t1].op = "PUT"
       /\ th[t2].pc \in {"rlock", "lock"}
       /\ th[t2].key # th[t1].key)
        => IF th[t2].pc = "rlock" THEN CanRLock ELSE CanLock

\* A handler invocation of op for key k starts in this step.
Reaches(op, k) ==
    \/ \E t \in Threads : /\ th[t].pc = "idle" /\ th'[t].pc # "idle"
                          /\ th'[t].op = op /\ th'[t].key = k
    \/ resp' # resp /\ resp'.op = op /\ resp'.key = k /\ resp'.hit

C19_EntriesWholeAndImmutable ==
    /\ [](/\ \A k \in DOMAIN attrCache :
               /\ lastPut.attr[k].set
               /\ attrCache[k] = [attr |-> lastPut.attr[k].val,
                                  expiry |-> lastPut.attr[k].expiry]
          /\ \A k \in DOMAIN lookupCache :
               /\ lastPut.lookup[k].set
               /\ lookupCache[k] = [inode |-> lastPut.lookup[k].val.inode,
                                    entry |-> lastPut.lookup[k].val.entry,
                                    expiry |-> lastPut.lookup[k].expiry]
          /\ \A k \in DOMAIN dirCache :
               /\ lastPut.dir[k].set
               /\ dirCache[k] = [entries |-> lastPut.dir[k].val,
                                 expiry |-> lastPut.dir[k].expiry])
    /\ [][\A k \in Paths :
            /\ (k \in DOMAIN attrCache' /\ attrCache' # attrCache
                  /\ (k \in DOMAIN attrCache => attrCache'[k] # attrCache[k]))
                 => \E t \in Threads : /\ th[t].pc = "put" /\ th[t].key = k
                                       /\ th'[t].pc = "idle"
            /\ (k \in DOMAIN lookupCache' /\ lookupCache' # lookupCache
                  /\ (k \in DOMAIN lookupCache
                        => lookupCache'[k] # lookupCache[k]))
                 => \E t \in Threads : /\ th[t].pc = "put" /\ th[t].key = k
                                       /\ th'[t].pc = "idle"
            /\ (k \in DOMAIN dirCache' /\ dirCache' # dirCache
                  /\ (k \in DOMAIN dirCache => dirCache'[k] # dirCache[k]))
                 => \E t \in Threads : /\ th[t].pc \in {"putdir", "locked"}
                                       /\ th[t].key = k
                                       /\ th'[t].pc = "idle"
                                       /\ dirCache'[k].entries = th[t].acc]_vars

\* The file was written after its attributes were cached: the live entry still
\* holds the size it was published with.
C19_Witness ==
    /\ "/d/a" \in DOMAIN attrCache
    /\ AttrCache_Get("/d/a").hit
    /\ names["/d/a"] = attrCache["/d/a"].attr.ino
    /\ size[names["/d/a"]] # attrCache["/d/a"].attr.size

\* C20: every Getattr, Lookup or Readdir invocation is counted once, as a hit
\* when the store's Get returned a value and as a miss otherwise, whatever
\* the backend call does afterwards: per operation kind the hit counter plus
\* the miss counter is the number of invocations.
C20_OneEventPerInvocation ==
    /\ metrics.GetattrHits = calls["GETATTR"].hits
    /\ metrics.GetattrMisses = calls["GETATTR"].misses
    /\ metrics.LookupHits = calls["LOOKUP"].hits
    /\ metrics.LookupMisses = calls["LOOKUP"].misses
    /\ metrics.ReaddirHits = calls["READDIR"].hits
    /\ metrics.ReaddirMisses = calls["READDIR"].misses
    /\ metrics.GetattrHits + metrics.GetattrMisses
         = calls["GETATTR"].hits + calls["GETATTR"].misses
    /\ metrics.LookupHits + metrics.LookupMisses
         = calls["LOOKUP"].hits + calls["LOOKUP"].misses
    /\ metrics.ReaddirHits + metrics.ReaddirMisses
         = calls["READDIR"].hits + calls["READDIR"].misses

\* A Getattr whose backend call failed has returned, after a hit and a miss
\* that succeeded: two misses and one hit are counted.
C20_Witness ==
    /\ resp.op = "GETATTR" /\ resp.errno # "OK"
    /\ calls["GETATTR"].hits = 1
    /\ calls["GETATTR"].misses = 2
    /\ metrics.GetattrMisses = 2

\* A logTransaction call was made in this step.
Emitted == event'.n > event.n

\* C21: a failed write of the transaction log or of the rotating cache log
\* leaves the operation as it is: a Getattr still answers a hit from the store
\* or goes on to the backend call on a miss, an Unlink still returns what the
\* backend call returned, and the stores are what they were.
C21_LogFailureChangesNothing ==
    [][(Emitted /\ ~(event'.cacheOk /\ event'.transOk)) =>
         /\ UNCHANGED <<stores, dirRm, lookupRm>>
         /\ event'.op \in {"GETATTR", "UNLINK"}
         /\ event'.op = "GETATTR" =>
              LET g == AttrCache_Get(event'.path)
              IN  /\ attrRm' = Spawn(attrRm, event'.path, g.spawn)
                  /\ UNCHANGED backend
                  /\ IF g.hit
                     THEN /\ resp'.op = "GETATTR" /\ resp'.hit
                          /\ resp'.key = event'.path
                          /\ resp'.errno = "OK" /\ resp'.attr = g.val
                          /\ th' = th
                     ELSE /\ resp' = resp
                          /\ \E t \in Threads :
                               /\ th[t].pc = "idle" /\ th'[t].pc = "lstat"
                               /\ th'[t].key = event'.path
         /\ event'.op = "UNLINK" =>
              /\ resp'.op = "UNLINK" /\ resp'.key = event'.path
              /\ resp'.errno = IF Exists(event'.path) THEN "OK" ELSE "ENOENT"
              /\ names' = [names EXCEPT ![event'.path] = 0]
              /\ UNCHANGED attrRm]_vars

\* A Getattr answered a hit although both log writes of its event failed.
C21_Witness ==
    /\ event.op = "GETATTR" /\ event.status = "CACHE_HIT"
    /\ ~event.cacheOk /\ ~event.transOk
    /\ resp.op = "GETATTR" /\ resp.hit /\ resp.errno = "OK"

\* C27: once the compression and the cleanup a rotation started have both
\* finished, at most MAX_OLD_FILES compressed files are left.
C27_AtMostSixOldFiles ==
    (logFiles.compress = 0 /\ logFiles.cleanup = 0)
      => logFiles.gz <= MAX_OLD_FILES

\* C22: the DirCache's mutex is held exactly by the invocations that are
\* inside Get or Put: a Get or Put that has returned, on whatever branch, has
\* released it, so with no call executing the mutex is free.
C22_NoLockLeftBehind ==
    /\ \A t \in Threads : /\ t \in dirMu.r <=> th[t].pc = "rlocked"
                          /\ dirMu.w = t <=> th[t].pc = "locked"
    /\ dirMu.w \in Threads \cup {0}
    /\ (\A t \in Threads : th[t].pc \notin {"rlocked", "locked"})
         => dirMu = MuFree

\* A Get found its entry expired, scheduled the removal and returned; no call
\* is executing and the mutex is free.
C22_Witness ==
    /\ resp.op = "GET" /\ ~resp.hit
    /\ dirRm[resp.key] > 0
    /\ \A t \in Threads : th[t].pc = "idle"
    /\ dirMu = MuFree

\* C23: a Lookup hit never returns a node the transport layer has released
\* since the entry was cached.
C23_HitReturnsNoRetiredNode ==
    (resp.op = "LOOKUP" /\ resp.hit) => resp.inode \notin retired

\* C24: two nodes the transport layer references at the same time carry the
\* same identity number only if they were built for the same backend entry.
C24_IdentityUniqueAmongReferenced ==
    \A n1 \in refs : \A n2 \in refs : n1.ino = n2.ino => n1.gen = n2.gen

\* C26: the root node and the other nodes follow one algorithm for a
\* metadata operation; for Readdir: every listing answered is a hit of the
\* DirCache or has just been Put into it under the directory's key.
C26_RootFollowsSameAlgorithm ==
    [][(resp' # resp /\ resp'.op = "READDIR" /\ resp'.errno = "OK")
          => \/ resp'.hit
             \/ /\ resp'.key \in DOMAIN dirCache'
                /\ dirCache'[resp'.key].entries = resp'.list]_vars

\* The removal goroutines started and not yet run, over the three stores.
RECURSIVE PendingOver(_)
PendingOver(S) ==
    IF S = {} THEN 0
    ELSE LET p == CHOOSE q \in S : TRUE
         IN  attrRm[p] + lookupRm[p] + dirRm[p] + PendingOver(S \ {p})

\* The entries of store c that have outlived their expiry.
ExpiredIn(c) == {k \in DOMAIN c : now > c[k].expiry}

\* C25: for one expired entry at most one removal task is outstanding,
\* however many Gets see it expired, and the removal tasks outstanding are
\* no more than the expired entries.
C25_OneRemovalPerExpiredEntry ==
    /\ \A p \in Paths : attrRm[p] <= 1 /\ lookupRm[p] <= 1 /\ dirRm[p] <= 1
    /\ PendingOver(Paths) <= Cardinality(ExpiredIn(attrCache))
                             + Cardinality(ExpiredIn(lookupCache))
                             + Cardinality(ExpiredIn(dirCache))

\* C28: the removal a Get schedules on seeing an expired entry deletes only
\* that entry: a removal step never deletes an entry whose Put completed
\* while the removal was already scheduled.
C28_RemovalSparesLaterPut ==
    [][\A k \in Paths :
         /\ (attrRm'[k] < attrRm[k] /\ k \in DOMAIN attrCache
             /\ k \notin DOMAIN attrCache') => lastPut.attr[k].clean
         /\ (lookupRm'[k] < lookupRm[k] /\ k \in DOMAIN lookupCache
             /\ k \notin DOMAIN lookupCache') => lastPut.lookup[k].clean
         /\ (dirRm'[k] < dirRm[k] /\ k \in DOMAIN dirCache
             /\ k \notin DOMAIN dirCache') => lastPut.dir[k].clean]_vars

\* C29: when several misses on one key run concurrently, the entry the last
\* of them to finish leaves in the store comes from the most recent backend
\* read among them: its Put never replaces an entry of a later read.
C29_LastMissLeavesNewestRead ==
    [][\A t \in Threads :
         (/\ th[t].pc = "put" /\ th[t].op = "GETATTR" /\ th[t].err = "OK"
          /\ \A u \in Threads : th'[u].pc = "idle"
          /\ th[t].key \in DOMAIN attrCache)
           => attrCache'[th[t].key].attr.readAt
                >= attrCache[th[t].key].attr.readAt]_vars

\* C30: for one path the attributes given to clients never go backwards: a
\* Lookup hit returns no older backend read than a Getattr of the path has
\* already returned, and a Getattr hit none older than a Lookup has.
C30_AttributesNeverGoBack ==
    /\ (resp.op = "LOOKUP" /\ resp.hit)
         => resp.entry.readAt >= shown.attr[resp.key]
    /\ (resp.op = "GETATTR" /\ resp.hit)
         => resp.attr.readAt >= shown.lookup[resp.key]

\* C31: no store lock is held while a handler makes a backend call or writes
\* a log line: an invocation at its updateMetrics / logTransaction or at its
\* directory read holds the DirCache's mutex neither for reading nor for
\* writing.
C31_NoLockAcrossBackendOrLog ==
    \A t \in Threads :
      th[t].pc \in {"loghit", "logmiss", "opendir"}
        => t \notin dirMu.r /\ dirMu.w # t

\* A Readdir is at its directory read while another invocation is inside
\* dirCache.Get with the read lock.
C31_Witness ==
    /\ th[1].pc = "opendir"
    /\ th[2].pc = "rlocked"
    /\ dirMu.r = {2}

\* C32: every Get, Put and Remove of a finite set of calls on the DirCache
\* completes under fair scheduling: an invocation waiting for the mutex gets
\* it and returns, and every removal a Get spawned runs.
C32_NoneWaitsForever ==
    /\ \A t \in Threads :
         (th[t].pc \in {"rlock", "lock"}) ~> (th[t].pc \notin {"rlock", "rlocked", "lock", "locked"})
    /\ \A p \in LockKeys : (dirRm[p] > 0) ~> (dirRm[p] = 0)

\* A Put waits for the mutex while a Get holds the read lock and a removal
\* the Get's caller spawned earlier is outstanding.
C32_Witness ==
    /\ th[2].pc = "lock"
    /\ th[1].pc = "rlocked"
    /\ \E p \in LockKeys : dirRm[p] > 0

\* C33: an entry leaves a store's map only in the step of a removal task,
\* and a removal task is started only by a Get that found the key present and
\* expired; no other step deletes a key, so an expired entry nobody looks up
\* stays in the map.
C33_OnlyRemovalTasksDelete ==
    [][\A k \in Paths :
         /\ (k \in DOMAIN attrCache /\ k \notin DOMAIN attrCache')
              => attrRm'[k] = attrRm[k] - 1
         /\ (k \in DOMAIN lookupCache /\ k \notin DOMAIN lookupCache')
              => lookupRm'[k] = lookupRm[k] - 1
         /\ (k \in DOMAIN dirCache /\ k \notin DOMAIN dirCache')
              => dirRm'[k] = dirRm[k] - 1
         /\ attrRm'[k] > attrRm[k]
              => k \in DOMAIN attrCache /\ now > attrCache[k].expiry
         /\ lookupRm'[k] > lookupRm[k]
              => k \in DOMAIN lookupCache /\ now > lookupCache[k].expiry
         /\ dirRm'[k] > dirRm[k]
              => k \in DOMAIN dirCache /\ now > dirCache[k].expiry]_vars

\* A Getattr miss has Put the attributes of /d/a, and a removal task has
\* since deleted the entry and is done.
C33_Witness ==
    /\ lastPut.attr["/d/a"].set
    /\ "/d/a" \notin DOMAIN attrCache
    /\ attrRm["/d/a"] = 0

\* C34: a CachedDirStream yields the entries of its listing once each, in
\* stored order; at the end HasNext is false and Next returns ENOENT; a call
\* on one stream changes no other stream, no stream's listing and not the
\* DirCache.
C34_StreamYieldsListingOnce ==
    /\ [](\A i \in DOMAIN streams :
            LET s == streams[i]
            IN  /\ s.index <= Len(s.entries)
                /\ s.out = SubSeq(s.entries, 1, s.index)
                /\ s.last \in {"ENOENT", "FALSE"} => s.out = s.entries
                /\ s.last = "TRUE" => s.index < Len(s.entries))
    /\ [][/\ \A i \in DOMAIN streams :
               /\ i \in DOMAIN streams'
               /\ streams'[i].entries = streams[i].entries
          /\ \A i \in DOMAIN streams : \A j \in DOMAIN streams :
               (i # j /\ streams'[i] # streams[i])
                 => streams'[j] = streams[j]
          /\ (\E i \in DOMAIN streams : streams'[i] # streams[i])
               => dirCache' = dirCache]_vars

\* Two streams over the same listing of two entries: the first has been read
\* to its end and has answered ENOENT, the second has yielded one entry.
C34_Witness ==
    /\ Len(streams) = 2
    /\ streams[1].entries = streams[2].entries
    /\ Len(streams[1].entries) = 2
    /\ streams[1].last = "ENOENT"
    /\ streams[2].index = 1

\* C35: in the dispatcher of cmd/forkspoon/main.go the three hit counters stay
\* zero, every Getattr, Lookup and Readdir call is counted as a miss, no such
\* call is logged as a hit and with a transaction log it is logged as a miss,
\* and what the call returns is what the backend holds at the call.
C35_KernelOnlyAlwaysMisses ==
    workload = "kernelonly" =>
      /\ metrics.GetattrHits = 0
      /\ metrics.LookupHits = 0
      /\ metrics.ReaddirHits = 0
      /\ metrics.GetattrMisses = calls["GETATTR"].misses
      /\ metrics.LookupMisses = calls["LOOKUP"].misses
      /\ metrics.ReaddirMisses = calls["READDIR"].misses
      /\ event.op \in MetadataOps =>
           /\ event.status # "CACHE_HIT"
           /\ transLog.set => event.status = "CACHE_MISS"
      /\ resp.op \in MetadataOps => ~resp.hit
      /\ resp.op = "GETATTR" =>
           \E r \in LstatOutcomes(resp.key) :
             /\ resp.errno = r.err
             /\ r.err = "OK" =>
                  resp.attr = SetTimeout(AttrFromStat(NilAttr, r.st), cacheTTL)
      /\ resp.op = "LOOKUP" =>
           \E r \in LstatOutcomes(resp.key) :
             /\ resp.errno = r.err
             /\ r.err = "OK" => /\ resp.entry.ino = r.st.ino
                                /\ resp.entry.readAt = now
      /\ (resp.op = "READDIR" /\ resp.errno = "OK") =>
           /\ Exists(resp.key)
           /\ resp.list = [items |-> DirItemsOf(names, resp.key),
                           readAt |-> now]

\* Three calls have reached the dispatcher, one of each kind; the last, a
\* Readdir, was logged as a miss and answered from the backend.
C35_Witness ==
    /\ workload = "kernelonly"
    /\ metrics.GetattrMisses = 1
    /\ metrics.LookupMisses = 1
    /\ metrics.ReaddirMisses = 1
    /\ event.op = "READDIR"
    /\ event.status = "CACHE_MISS"
    /\ resp.op = "READDIR"
    /\ resp.errno = "OK"
    /\ Len(resp.list.items) = 1

\* The statements of Write, rotationChecker, rotate and Close that run
\* between l.mu.Lock() and l.mu.Unlock().
UnderLogMutex ==
    {"logwrite", "logstat", "rotate", "rename", "reopen", "logclose", "logret"}

\* C36: a Write or a size check that finds the size counter at or above the
\* maximum rotates the log before it releases the mutex: it leaves the
\* critical section without an error only with the counter below the maximum,
\* and after a rotation with a fresh open file and the counter at zero; after
\* a successful Write the counter is below the maximum; at most one rotation
\* is in progress, and it is the mutex holder's.
C36_RotationInsideCriticalSection ==
    /\ \A t \in Threads :
         /\ th[t].pc \in UnderLogMutex => cacheLog.mu = t
         /\ (th[t].pc = "logret" /\ th[t].op \in {"LOGWRITE", "LOGCHECK"}
               /\ th[t].err = "OK")
              => cacheLog.size < MaxLogSize /\ cacheLog.open
         /\ (th[t].pc = "logret" /\ th[t].idx = 1)
              => cacheLog.size = 0 /\ cacheLog.open /\ th[t].err = "OK"
    /\ (resp.op = "LOGWRITE" /\ resp.errno = "OK" /\ cacheLog.mu = 0)
         => cacheLog.size < MaxLogSize
    /\ cacheLog.rotating <= 1
    /\ cacheLog.rotating = 1 <=> \E t \in Threads : th[t].pc \in {"rename", "reopen"}

\* A Write has returned without an error after rotating the log, while the
\* rotationChecker was waiting for the mutex.
C36_Witness ==
    /\ resp.op = "LOGWRITE"
    /\ resp.errno = "OK"
    /\ resp.n = 1
    /\ cacheLog.mu = 0
    /\ cacheLog.size = 0
    /\ cacheLog.rotated = 1
    /\ th[Checker].pc = "logwait"
    /\ th[Checker].op = "LOGCHECK"

C38_HandleStaysOpen ==
    (cacheLog.mu = 0 /\ ~cacheLog.closed) => cacheLog.open

====
